---------------------------- MODULE Spec2Model ----------------------------
(***************************************************************************)
(* A model of lib/Transforms/IPO/MergeFunctions.cpp: the fingerprint       *)
(* (profileFunction), the structural comparator (FunctionComparator) and   *)
(* the merge driver (MergeFunctions::runOnModule and the rewriters it      *)
(* calls).                                                                 *)
(*                                                                         *)
(* The IR is modelled by records:                                          *)
(*   type      [id, ...]            the kind tag and the kind's components *)
(*   value     [k, ...]             argument, instruction result, block,   *)
(*                                  function, constant, inline asm         *)
(*   inst      [op, ty, ops, ...]   opcode, result type, operands and the  *)
(*                                  opcode-specific state                  *)
(*   block     [insts]              the instructions; the successors are   *)
(*                                  the terminator's block operands        *)
(*   function  [st, linkage, ...]   header fields and the block list;      *)
(*                                  block 1 is the entry block             *)
(* A module is a function from function ids to function records.           *)
(***************************************************************************)
EXTENDS Integers, Sequences, FiniteSets, TLC

VARIABLES
    mod,            \* the module: id -> function record
    DL,             \* the DataLayout: [present, bits]
    HasGlobalAliases,
    FnSet,          \* set of ComparableFunction entries [func, hash]
    Deferred,       \* std::vector<WeakVH>: sequence of function ids
    Worklist,       \* the local Worklist of one loop iteration
    pc,             \* position of runOnModule
    idx,            \* position of the iterator I in Worklist
    Changed,        \* the local Changed of runOnModule
    stats,          \* the four STATISTIC counters
    run,            \* which run of the pass this is
    iter,           \* iterations of the do/while loop in this run
    hist,           \* history of the run (read by the properties only)
    cmpF1, cmpF2,   \* FunctionComparator::F1, F2
    id_map,         \* FunctionComparator::id_map
    seen_values,    \* FunctionComparator::seen_values
    enumLog,        \* results of the enumerate() calls made so far
    cmpRes,         \* results of the comparisons made on the module
    cmpTyL, cmpTyR, \* the types handed to cmpType
    cmpTyRes        \* what cmpType returned for them

vars == <<mod, DL, HasGlobalAliases, FnSet, Deferred, Worklist, pc, idx,
          Changed, stats, run, iter, hist, cmpF1, cmpF2, id_map,
          seen_values, enumLog, cmpRes, cmpTyL, cmpTyR, cmpTyRes>>

driverVars == <<HasGlobalAliases, FnSet, Deferred, Worklist, pc, idx,
                Changed, stats, run, iter, hist>>

cmpVars == <<cmpF1, cmpF2, id_map, seen_values, enumLog, cmpRes,
             cmpTyL, cmpTyR, cmpTyRes>>

typeVars == <<cmpTyL, cmpTyR, cmpTyRes>>

(***************************************************************************)
(* Bounds of the model.                                                    *)
(***************************************************************************)
NumFuncs == 3       \* functions in a module handed to the pass
MaxRuns == 2        \* runs of the pass on one module
MaxIter == 6        \* cap on the iterations of the do/while loop
MaxEnum == 3        \* enumerate() calls followed in one comparison

(***************************************************************************)
(* Types.                                                                  *)
(***************************************************************************)
VoidTy == [id |-> "Void"]
FloatTy == [id |-> "Float"]
LabelTy == [id |-> "Label"]
IntTy(n) == [id |-> "Integer", n |-> n]
\* A pointer type: address space and pointee type.
PtrTy(as, elem) == [id |-> "Pointer", as |-> as, elem |-> elem]
StructTy(packed, elems) == [id |-> "Struct", packed |-> packed, elems |-> elems]
ArrayTy(num, elem) == [id |-> "Array", num |-> num, elem |-> elem]
FunctionTy(ret, params, vararg) ==
    [id |-> "Function", ret |-> ret, params |-> params, vararg |-> vararg]

\* Type::TypeID, as numbers (the enumeration order of llvm/IR/Type.h).
TypeIDNum ==
    [t \in {"Void", "Half", "Float", "Double", "X86_FP80", "FP128",
            "PPC_FP128", "Label", "Metadata", "X86_MMX", "Integer",
            "Function", "Struct", "Array", "Pointer", "Vector"} |->
        CASE t = "Void" -> 0 [] t = "Half" -> 1 [] t = "Float" -> 2
          [] t = "Double" -> 3 [] t = "X86_FP80" -> 4 [] t = "FP128" -> 5
          [] t = "PPC_FP128" -> 6 [] t = "Label" -> 7 [] t = "Metadata" -> 8
          [] t = "X86_MMX" -> 9 [] t = "Integer" -> 10 [] t = "Function" -> 11
          [] t = "Struct" -> 12 [] t = "Array" -> 13 [] t = "Pointer" -> 14
          [] t = "Vector" -> 15]

\* getTypeIDForHash: pointers hash as integers.
getTypeIDForHash(Ty) ==
    IF Ty.id = "Pointer" THEN TypeIDNum["Integer"] ELSE TypeIDNum[Ty.id]

\* (uint64_t)Ty of an integer type: types are uniqued, so distinct integer
\* types have distinct addresses; the width stands for the address.
TypeAddr(Ty) == Ty.n

cmpNumbers(L, R) == IF L < R THEN -1 ELSE IF L > R THEN 1 ELSE 0

BoolNum(b) == IF b THEN 1 ELSE 0

\* DataLayout::getIntPtrType of an address-space-0 pointer.
getIntPtrType(dl) == IntTy(dl.bits)

\* cmpType without the conversion of address-space-0 pointers to the
\* integer of pointer width (on types without elements).
cmpType_NoIntPtr(dl, TyL0, TyR0) ==
    IF TyL0 = TyR0 THEN 0
    ELSE IF cmpNumbers(TypeIDNum[TyL0.id], TypeIDNum[TyR0.id]) # 0
    THEN cmpNumbers(TypeIDNum[TyL0.id], TypeIDNum[TyR0.id])
    ELSE IF TyL0.id = "Integer" THEN cmpNumbers(TypeAddr(TyL0), TypeAddr(TyR0))
    ELSE IF TyL0.id = "Pointer" THEN cmpNumbers(TyL0.as, TyR0.as)
    ELSE 0

\* cmpType that tells pointers of one address space apart by their
\* pointee types (on types without elements).
cmpType_ComparePointees(dl, TyL0, TyR0) ==
    IF TyL0 = TyR0 THEN 0
    ELSE IF cmpNumbers(TypeIDNum[TyL0.id], TypeIDNum[TyR0.id]) # 0
    THEN cmpNumbers(TypeIDNum[TyL0.id], TypeIDNum[TyR0.id])
    ELSE IF TyL0.id = "Integer" THEN cmpNumbers(TypeAddr(TyL0), TypeAddr(TyR0))
    ELSE IF TyL0.id = "Pointer" /\ TyL0.as # TyR0.as
    THEN cmpNumbers(TyL0.as, TyR0.as)
    ELSE 1

\* cmpType that returns -1 for any two different types of one kind.
cmpType_Unordered(dl, TyL0, TyR0) ==
    IF TyL0 = TyR0 THEN 0
    ELSE IF cmpNumbers(TypeIDNum[TyL0.id], TypeIDNum[TyR0.id]) # 0
    THEN cmpNumbers(TypeIDNum[TyL0.id], TypeIDNum[TyR0.id])
    ELSE -1

RECURSIVE cmpType(_, _, _)
RECURSIVE cmpTypeSeq(_, _, _, _)

\* The element loops of cmpType: the first non-zero result from index i on.
cmpTypeSeq(dl, Ls, Rs, i) ==
    IF i > Len(Ls) THEN 0
    ELSE LET Res == cmpType(dl, Ls[i], Rs[i])
         IN  IF Res # 0 THEN Res ELSE cmpTypeSeq(dl, Ls, Rs, i + 1)

cmpType(dl, TyL0, TyR0) ==
    LET TyL == IF dl.present /\ TyL0.id = "Pointer" /\ TyL0.as = 0
               THEN getIntPtrType(dl) ELSE TyL0
        TyR == IF dl.present /\ TyR0.id = "Pointer" /\ TyR0.as = 0
               THEN getIntPtrType(dl) ELSE TyR0
        Res == cmpNumbers(TypeIDNum[TyL.id], TypeIDNum[TyR.id])
    IN  IF TyL = TyR THEN 0
        ELSE IF Res # 0 THEN Res
        ELSE CASE TyL.id \in {"Integer", "Vector"} ->
                    cmpNumbers(TypeAddr(TyL), TypeAddr(TyR))
               [] TyL.id \in {"Void", "Float", "Double", "X86_FP80", "FP128",
                              "PPC_FP128", "Label", "Metadata"} -> 0
               [] TyL.id = "Pointer" -> cmpNumbers(TyL0.as, TyR0.as)
               [] TyL.id = "Struct" ->
                    IF Len(TyL.elems) # Len(TyR.elems)
                    THEN cmpNumbers(Len(TyL.elems), Len(TyR.elems))
                    ELSE IF TyL.packed # TyR.packed
                    THEN cmpNumbers(BoolNum(TyL.packed), BoolNum(TyR.packed))
                    ELSE cmpTypeSeq(dl, TyL.elems, TyR.elems, 1)
               [] TyL.id = "Function" ->
                    IF Len(TyL.params) # Len(TyR.params)
                    THEN cmpNumbers(Len(TyL.params), Len(TyR.params))
                    ELSE IF TyL.vararg # TyR.vararg
                    THEN cmpNumbers(BoolNum(TyL.vararg), BoolNum(TyR.vararg))
                    ELSE LET R2 == cmpType(dl, TyL.ret, TyR.ret)
                         IN  IF R2 # 0 THEN R2
                             ELSE cmpTypeSeq(dl, TyL.params, TyR.params, 1)
               [] TyL.id = "Array" ->
                    IF TyL.num # TyR.num THEN cmpNumbers(TyL.num, TyR.num)
                    ELSE cmpType(dl, TyL.elem, TyR.elem)

isEquivalentType(dl, Ty1, Ty2) == cmpType(dl, Ty1, Ty2) = 0


(***************************************************************************)
(* Values, instructions, blocks, functions.                                *)
(***************************************************************************)
ArgV(n) == [k |-> "arg", n |-> n]
InstV(b, n) == [k |-> "inst", b |-> b, n |-> n]
BBV(b) == [k |-> "bb", b |-> b]
FnV(f) == [k |-> "fn", f |-> f]
CIntV(ty, v) == [k |-> "cint", ty |-> ty, v |-> v]
NullV(ty) == [k |-> "null", ty |-> ty]
\* ConstantExpr::getBitCast of function f to the pointer type ty.
CastV(f, ty) == [k |-> "cast", f |-> f, ty |-> ty]
AsmV(s) == [k |-> "asm", s |-> s]
\* The null Value* that id_map[V1] holds before an image is assigned.
NoValue == [k |-> "none"]

\* An instruction with the opcode-specific state at its defaults.
MkInst(op, ty, ops) ==
    [op |-> op, ty |-> ty, ops |-> ops,
     opt |-> 0,                 \* SubclassOptionalData (nuw/nsw/exact/tail)
     vol |-> FALSE,             \* isVolatile
     align |-> 0,               \* getAlignment
     ord |-> 0,                 \* getOrdering / getSuccessOrdering
     ord2 |-> 0,                \* getFailureOrdering
     scope |-> 0,               \* getSynchScope
     pred |-> 0,                \* getPredicate
     cc |-> 0,                  \* getCallingConv
     attrs |-> 0,               \* getAttributes
     idx |-> <<>>,              \* getIndices
     rmw |-> 0,                 \* getOperation
     off |-> -1]                \* GEP: the constant byte offset, -1 if none

Terminators == {"ret", "br", "unreachable", "invoke"}

\* TerminatorInst::getSuccessor: the block operands of the terminator.
Succs(B) ==
    LET T == B.insts[Len(B.insts)]
    IN  IF T.op \in {"br", "invoke"}
        THEN LET bbs == SelectSeq(T.ops, LAMBDA v : v.k = "bb")
             IN  [i \in 1..Len(bbs) |-> bbs[i].b]
        ELSE <<>>

getFunctionType(F) == FunctionTy(F.ret, F.params, F.vararg)

\* Function::getType: a pointer, in address space 0, to the function type.
FnPtrType(F) == PtrTy(0, getFunctionType(F))

IsConstant(V) == V.k \in {"fn", "cint", "null", "cast"}

isNullValue(V) == V.k = "null" \/ (V.k = "cint" /\ V.v = 0)

\* Value::getType of a value used in function F of module m.
TypeOf(m, F, V) ==
    CASE V.k = "arg" -> F.params[V.n]
      [] V.k = "inst" -> F.blocks[V.b].insts[V.n].ty
      [] V.k = "bb" -> LabelTy
      [] V.k = "fn" -> FnPtrType(m[V.f])
      [] V.k \in {"cint", "null", "cast"} -> V.ty
      [] V.k = "asm" -> PtrTy(0, FunctionTy(VoidTy, <<>>, FALSE))

\* Value::getValueID: the value's kind, and the opcode of an instruction.
getValueID(F, V) ==
    IF V.k = "inst" THEN <<"inst", F.blocks[V.b].insts[V.n].op>>
    ELSE <<V.k, "">>

\* Type::canLosslesslyBitCastTo for the first-class types of the model.
canLosslesslyBitCastTo(T1, T2) ==
    \/ T1 = T2
    \/ T1.id = "Pointer" /\ T2.id = "Pointer" /\ T1.as = T2.as

\* ConstantExpr::getBitCast(C, Ty), with the folds of the constant folder:
\* a cast to the constant's own type is the constant, null casts to null,
\* a cast of a cast is a cast of the inner constant.
getBitCast(m, C, Ty) ==
    CASE C.k = "fn" -> IF FnPtrType(m[C.f]) = Ty THEN C ELSE CastV(C.f, Ty)
      [] C.k = "cast" ->
            IF FnPtrType(m[C.f]) = Ty THEN FnV(C.f) ELSE CastV(C.f, Ty)
      [] C.k = "null" -> NullV(Ty)
      [] OTHER -> IF C.ty = Ty THEN C ELSE [k |-> "castexpr", ty |-> Ty]


(***************************************************************************)
(* FunctionComparator.  The state of one comparison is a record            *)
(* [ok, id_map, seen_values]: ok is the result of the calls made so far.   *)
(***************************************************************************)
NewComparison == [ok |-> TRUE, id_map |-> <<>>, seen_values |-> {}]

Fail(cs) == [cs EXCEPT !.ok = FALSE]

\* Sequencing: K(x) for a value x that K reads more than once, and K(cs)
\* only if the calls made so far all returned true.
With(x, K(_)) == K(x)
AndThen(cs, K(_)) == IF cs.ok THEN K(cs) ELSE cs

\* id_map[V1]: the lookup default-constructs a null entry for a new key.
MapLookup(map, V1) ==
    IF V1 \in DOMAIN map THEN map ELSE map @@ (V1 :> NoValue)

\* The constant branch of enumerate (V1 is a Constant).
enumerateConstant(m, dl, F1, F2, V1, V2) ==
    IF V1 = V2 THEN TRUE
    ELSE IF ~IsConstant(V2) THEN FALSE
    ELSE IF /\ isNullValue(V1) /\ isNullValue(V2)
            /\ isEquivalentType(dl, TypeOf(m, F1, V1), TypeOf(m, F2, V2))
         THEN TRUE
    ELSE /\ canLosslesslyBitCastTo(TypeOf(m, F1, V1), TypeOf(m, F2, V2))
         /\ V1 = getBitCast(m, V2, TypeOf(m, F1, V1))

\* The bijection branch without the test of seen_values.
enumerateMapped_NoSeenTest(cs, V1, V2) ==
    LET map == MapLookup(cs.id_map, V1)
    IN  IF map[V1] # NoValue
        THEN [cs EXCEPT !.ok = (map[V1] = V2), !.id_map = map]
        ELSE [cs EXCEPT !.ok = TRUE,
                        !.id_map = [map EXCEPT ![V1] = V2],
                        !.seen_values = cs.seen_values \cup {V2}]

\* The bijection branch of enumerate: look V1 up, else claim V2.
enumerateMapped(cs, V1, V2) ==
    LET map == MapLookup(cs.id_map, V1)
    IN  IF map[V1] # NoValue
        THEN [cs EXCEPT !.ok = (map[V1] = V2), !.id_map = map]
        ELSE IF V2 \in cs.seen_values
        THEN [cs EXCEPT !.ok = FALSE, !.id_map = map]
        ELSE [cs EXCEPT !.ok = TRUE,
                        !.id_map = [map EXCEPT ![V1] = V2],
                        !.seen_values = cs.seen_values \cup {V2}]

\* enumerate without the two tests for the functions under comparison.
enumerate_NoRecursionTest(cs, m, dl, f1, f2, V1, V2) ==
    IF IsConstant(V1)
    THEN [cs EXCEPT !.ok = enumerateConstant(m, dl, m[f1], m[f2], V1, V2)]
    ELSE IF V1.k = "asm" \/ V2.k = "asm" THEN [cs EXCEPT !.ok = (V1 = V2)]
    ELSE enumerateMapped(cs, V1, V2)

\* FunctionComparator::enumerate(V1, V2) in the comparison of functions
\* f1 and f2 of module m.
enumerate(cs, m, dl, f1, f2, V1, V2) ==
    IF V1 = FnV(f1) /\ V2 = FnV(f2) THEN [cs EXCEPT !.ok = TRUE]
    ELSE IF V1 = FnV(f2) /\ V2 = FnV(f1) THEN [cs EXCEPT !.ok = TRUE]
    ELSE IF IsConstant(V1)
    THEN [cs EXCEPT !.ok = enumerateConstant(m, dl, m[f1], m[f2], V1, V2)]
    ELSE IF V1.k = "asm" \/ V2.k = "asm" THEN [cs EXCEPT !.ok = (V1 = V2)]
    ELSE enumerateMapped(cs, V1, V2)

\* The loop of isEquivalentOperation over the operand types.
OperandTypesEquivalent(m, dl, F1, F2, I1, I2) ==
    \A i \in 1..Len(I1.ops) :
        isEquivalentType(dl, TypeOf(m, F1, I1.ops[i]), TypeOf(m, F2, I2.ops[i]))

\* FunctionComparator::isEquivalentOperation.
isEquivalentOperation(m, dl, F1, F2, I1, I2) ==
    IF \/ I1.op # I2.op
       \/ Len(I1.ops) # Len(I2.ops)
       \/ ~isEquivalentType(dl, I1.ty, I2.ty)
       \/ I1.opt # I2.opt
    THEN FALSE
    ELSE IF ~OperandTypesEquivalent(m, dl, F1, F2, I1, I2) THEN FALSE
    ELSE CASE I1.op = "load" ->
                /\ I1.vol = I2.vol /\ I1.align = I2.align
                /\ I1.ord = I2.ord /\ I1.scope = I2.scope
           [] I1.op = "store" ->
                /\ I1.vol = I2.vol /\ I1.align = I2.align
                /\ I1.ord = I2.ord /\ I1.scope = I2.scope
           [] I1.op \in {"icmp", "fcmp"} -> I1.pred = I2.pred
           [] I1.op = "call" -> I1.cc = I2.cc /\ I1.attrs = I2.attrs
           [] I1.op = "invoke" -> I1.cc = I2.cc /\ I1.attrs = I2.attrs
           [] I1.op = "insertvalue" -> I1.idx = I2.idx
           [] I1.op = "extractvalue" -> I1.idx = I2.idx
           [] I1.op = "fence" -> I1.ord = I2.ord /\ I1.scope = I2.scope
           [] I1.op = "cmpxchg" ->
                /\ I1.vol = I2.vol /\ I1.ord = I2.ord
                /\ I1.ord2 = I2.ord2 /\ I1.scope = I2.scope
           [] I1.op = "atomicrmw" ->
                /\ I1.rmw = I2.rmw /\ I1.vol = I2.vol
                /\ I1.ord = I2.ord /\ I1.scope = I2.scope
           [] OTHER -> TRUE

RECURSIVE enumerateOperands(_, _, _, _, _, _, _, _)

\* The operand loops of compare(BB1, BB2) and isEquivalentGEP: enumerate
\* the operands pairwise from index i on; with checkKinds, also require
\* equal value ids and equivalent types.
enumerateOperands(cs, m, dl, f1, f2, I1I2, i, checkKinds) ==
    LET I1 == I1I2[1]
        I2 == I1I2[2]
    IN  IF i > Len(I1.ops) THEN cs
        ELSE AndThen(enumerate(cs, m, dl, f1, f2, I1.ops[i], I2.ops[i]),
                LAMBDA c1 :
                    IF /\ checkKinds
                       /\ \/ getValueID(m[f1], I1.ops[i])
                               # getValueID(m[f2], I2.ops[i])
                          \/ ~isEquivalentType(dl,
                                 TypeOf(m, m[f1], I1.ops[i]),
                                 TypeOf(m, m[f2], I2.ops[i]))
                    THEN Fail(c1)
                    ELSE enumerateOperands(c1, m, dl, f1, f2, I1I2, i + 1,
                                           checkKinds))

\* GEPOperator::getPointerAddressSpace: of the pointer operand's type.
getPointerAddressSpace(m, F, GEP) == TypeOf(m, F, GEP.ops[1]).as

\* FunctionComparator::isEquivalentGEP.  accumulateConstantOffset succeeds
\* when the GEP carries a constant offset (off >= 0).
isEquivalentGEP(cs, m, dl, f1, f2, GEP1, GEP2) ==
    IF getPointerAddressSpace(m, m[f1], GEP1)
          # getPointerAddressSpace(m, m[f2], GEP2)
    THEN Fail(cs)
    ELSE IF dl.present /\ GEP1.off >= 0 /\ GEP2.off >= 0
    THEN [cs EXCEPT !.ok = (GEP1.off = GEP2.off)]
    ELSE IF TypeOf(m, m[f1], GEP1.ops[1]) # TypeOf(m, m[f2], GEP2.ops[1])
    THEN Fail(cs)
    ELSE IF Len(GEP1.ops) # Len(GEP2.ops) THEN Fail(cs)
    ELSE enumerateOperands(cs, m, dl, f1, f2, <<GEP1, GEP2>>, 1, FALSE)

\* One turn of the do/while loop of compare(BB1, BB2): the instruction pair
\* at position i of blocks b1 and b2.
compareInst(cs, m, dl, f1, f2, b1, b2, i) ==
    LET I1 == m[f1].blocks[b1].insts[i]
        I2 == m[f2].blocks[b2].insts[i]
    IN  AndThen(enumerate(cs, m, dl, f1, f2, InstV(b1, i), InstV(b2, i)),
            LAMBDA c1 :
                IF I1.op = "gep"
                THEN IF I2.op # "gep" THEN Fail(c1)
                     ELSE AndThen(enumerate(c1, m, dl, f1, f2,
                                            I1.ops[1], I2.ops[1]),
                             LAMBDA c2 :
                                 isEquivalentGEP(c2, m, dl, f1, f2, I1, I2))
                ELSE IF ~isEquivalentOperation(m, dl, m[f1], m[f2], I1, I2)
                THEN Fail(c1)
                ELSE enumerateOperands(c1, m, dl, f1, f2, <<I1, I2>>, 1, TRUE))

RECURSIVE compareBlocks(_, _, _, _, _, _, _, _)

\* FunctionComparator::compare(BB1, BB2), from position i on.
compareBlocks(cs, m, dl, f1, f2, b1, b2, i) ==
    LET n1 == Len(m[f1].blocks[b1].insts)
        n2 == Len(m[f2].blocks[b2].insts)
    IN  AndThen(compareInst(cs, m, dl, f1, f2, b1, b2, i),
            LAMBDA c1 :
                IF i + 1 <= n1 /\ i + 1 <= n2
                THEN compareBlocks(c1, m, dl, f1, f2, b1, b2, i + 1)
                ELSE [c1 EXCEPT !.ok = (i + 1 > n1 /\ i + 1 > n2)])

RECURSIVE pushSuccessors(_, _, _, _)

\* The successor loop of compare(): w = [F1BBs, F2BBs, VisitedBBs].
pushSuccessors(w, S1, S2, i) ==
    IF i > Len(S1) THEN w
    ELSE IF S1[i] \in w.VisitedBBs THEN pushSuccessors(w, S1, S2, i + 1)
    ELSE pushSuccessors([F1BBs |-> Append(w.F1BBs, S1[i]),
                         F2BBs |-> Append(w.F2BBs, S2[i]),
                         VisitedBBs |-> w.VisitedBBs \cup {S1[i]}],
                        S1, S2, i + 1)

RECURSIVE walkCFG(_, _, _, _, _, _)

\* The while loop of compare(): pop a block pair, compare it, push the
\* successors not yet visited (in terms of F1).
walkCFG(cs, m, dl, f1, f2, w) ==
    IF w.F1BBs = <<>> THEN cs
    ELSE LET F1BB == w.F1BBs[Len(w.F1BBs)]
             F2BB == w.F2BBs[Len(w.F2BBs)]
             popped == [w EXCEPT !.F1BBs = SubSeq(w.F1BBs, 1, Len(w.F1BBs) - 1),
                                 !.F2BBs = SubSeq(w.F2BBs, 1, Len(w.F2BBs) - 1)]
         IN  AndThen(enumerate(cs, m, dl, f1, f2, BBV(F1BB), BBV(F2BB)),
                LAMBDA c1 :
                    AndThen(compareBlocks(c1, m, dl, f1, f2, F1BB, F2BB, 1),
                        LAMBDA c2 :
                            walkCFG(c2, m, dl, f1, f2,
                                pushSuccessors(popped,
                                    Succs(m[f1].blocks[F1BB]),
                                    Succs(m[f2].blocks[F2BB]), 1))))

RECURSIVE enumerateArgs(_, _, _, _, _, _)

\* The argument loop of compare(): the arguments are enumerated in order.
enumerateArgs(cs, m, dl, f1, f2, i) ==
    IF i > Len(m[f1].params) THEN cs
    ELSE enumerateArgs(enumerate(cs, m, dl, f1, f2, ArgV(i), ArgV(i)),
                       m, dl, f1, f2, i + 1)

\* The header checks of compare() without the test of the attributes.
headersEquivalent_NoAttributes(dl, F1, F2) ==
    /\ (F1.gc # "") = (F2.gc # "")
    /\ (F1.gc # "" => F1.gc = F2.gc)
    /\ (F1.section # "") = (F2.section # "")
    /\ (F1.section # "" => F1.section = F2.section)
    /\ F1.vararg = F2.vararg
    /\ F1.cc = F2.cc
    /\ isEquivalentType(dl, getFunctionType(F1), getFunctionType(F2))

\* The checks of compare() on what the hash does not cover.
headersEquivalent(dl, F1, F2) ==
    /\ F1.attrs = F2.attrs
    /\ (F1.gc # "") = (F2.gc # "")
    /\ (F1.gc # "" => F1.gc = F2.gc)
    /\ (F1.section # "") = (F2.section # "")
    /\ (F1.section # "" => F1.section = F2.section)
    /\ F1.vararg = F2.vararg
    /\ F1.cc = F2.cc
    /\ isEquivalentType(dl, getFunctionType(F1), getFunctionType(F2))

\* FunctionComparator(DL, F1, F2).compare(): the final comparison state.
compareState(m, dl, f1, f2) ==
    IF ~headersEquivalent(dl, m[f1], m[f2]) THEN Fail(NewComparison)
    ELSE walkCFG(enumerateArgs(NewComparison, m, dl, f1, f2, 1),
                 m, dl, f1, f2,
                 [F1BBs |-> <<1>>, F2BBs |-> <<1>>, VisitedBBs |-> {1}])

compare(m, dl, f1, f2) == compareState(m, dl, f1, f2).ok

(***************************************************************************)
(* profileFunction.  The hash is the FoldingSetNodeID it is computed       *)
(* from: the sequence of the values added.                                 *)
(***************************************************************************)
\* profileFunction made to hash the functions the operands name as well.
profileFunction_WithCallees(F) ==
    <<{F.blocks[b].insts[n].ops[i].f :
          <<b, n, i>> \in
              {q \in (1..Len(F.blocks)) \X (1..3) \X (1..3) :
                  /\ q[2] <= Len(F.blocks[q[1]].insts)
                  /\ q[3] <= Len(F.blocks[q[1]].insts[q[2]].ops)
                  /\ F.blocks[q[1]].insts[q[2]].ops[q[3]].k
                        \in {"fn", "cast"}}}>>
    \o <<Len(F.blocks), F.cc, BoolNum(F.gc # ""), BoolNum(F.vararg),
          getTypeIDForHash(F.ret)>>
    \o [i \in 1..Len(F.params) |-> getTypeIDForHash(F.params[i])]

profileFunction(F) ==
    <<Len(F.blocks), F.cc, BoolNum(F.gc # ""), BoolNum(F.vararg),
      getTypeIDForHash(F.ret)>>
    \o [i \in 1..Len(F.params) |-> getTypeIDForHash(F.params[i])]


(***************************************************************************)
(* The module and its use lists.                                           *)
(***************************************************************************)
\* Ids of the module's globals: the functions given, and room for the
\* thunks, aliases and helper functions the pass creates.
FuncIds == 1..NumFuncs
Ids == 1..(3 * NumFuncs)

DefaultRet == IntTy(32)
DefaultParams == <<IntTy(32), IntTy(32)>>

\* A function definition with the header fields at their defaults.
MkFunction(name, linkage, blocks) ==
    [st |-> "live",             \* live | decl | alias | erased | none
     name |-> name, linkage |-> linkage, unnamed_addr |-> FALSE,
     align |-> 0, attrs |-> 0, gc |-> "", section |-> "",
     vararg |-> FALSE, cc |-> 0, ret |-> DefaultRet,
     params |-> DefaultParams, blocks |-> blocks, aliasee |-> 0]

\* An id not yet used by any global.
NoFunction == [MkFunction(0, "external", <<>>) EXCEPT !.st = "none"]

isDeclaration(F) == F.st = "decl"
hasAvailableExternallyLinkage(F) == F.linkage = "available_externally"
mayBeOverridden(F) ==
    F.linkage \in {"weak", "linkonce", "common", "extern_weak"}
hasLocalLinkage(F) == F.linkage \in {"internal", "private"}
hasExternalLinkage(F) == F.linkage = "external"
hasWeakLinkage(F) == F.linkage = "weak"

\* Globals that have a body whose instructions use values.
HasBody(F) == F.st = "live"

\* The positions <<b, n, i>> of the operands of function F.
OperandPositions(F) ==
    UNION {UNION {{<<b, n, i>> : i \in 1..Len(F.blocks[b].insts[n].ops)} :
                    n \in 1..Len(F.blocks[b].insts)} :
             b \in 1..Len(F.blocks)}

OperandAt(F, pos) == F.blocks[pos[1]].insts[pos[2]].ops[pos[3]]

\* CallSite::isCallee: the use is the callee operand of a call or invoke.
isCallee(I, i) ==
    \/ I.op = "call" /\ i = Len(I.ops)
    \/ I.op = "invoke" /\ i = Len(I.ops) - 2

\* V names function G directly, or is a constant expression built on it.
RefersTo(V, G) == V.k \in {"fn", "cast"} /\ V.f = G

\* Value::use_empty of function G: no instruction operand, constant
\* expression in use, or alias refers to it.
use_empty(m, G) ==
    /\ \A p \in DOMAIN m : HasBody(m[p]) =>
          \A pos \in OperandPositions(m[p]) : ~RefersTo(OperandAt(m[p], pos), G)
    /\ \A a \in DOMAIN m : m[a].st = "alias" => m[a].aliasee # G

\* Functions with a call or invoke whose callee operand is Old itself.
DirectCallers(m, Old) ==
    {p \in DOMAIN m :
        /\ HasBody(m[p])
        /\ \E pos \in OperandPositions(m[p]) :
              /\ OperandAt(m[p], pos) = FnV(Old)
              /\ isCallee(m[p].blocks[pos[1]].insts[pos[2]], pos[3])}

\* Function F with every operand v at position (inst, i) replaced by
\* Op(inst, i, v).
MapOperands(F, Op(_, _, _)) ==
    [F EXCEPT !.blocks =
        [b \in 1..Len(F.blocks) |->
            [insts |->
                [n \in 1..Len(F.blocks[b].insts) |->
                    LET I == F.blocks[b].insts[n]
                    IN  [I EXCEPT !.ops =
                            [i \in 1..Len(I.ops) |-> Op(I, i, I.ops[i])]]]]]]

\* Value::replaceAllUsesWith(New) on function Old: operands naming Old name
\* New, constant expressions on Old are rebuilt on New, aliases follow.
replaceAllUsesWith(m, Old, New) ==
    [p \in DOMAIN m |->
        IF HasBody(m[p])
        THEN MapOperands(m[p],
                LAMBDA I, i, v :
                    IF v = FnV(Old) THEN FnV(New)
                    ELSE IF v.k = "cast" /\ v.f = Old
                    THEN getBitCast(m, FnV(New), v.ty)
                    ELSE v)
        ELSE IF m[p].st = "alias" /\ m[p].aliasee = Old
        THEN [m[p] EXCEPT !.aliasee = New]
        ELSE m[p]]

\* Function::eraseFromParent: the function and its body are destroyed.
eraseFromParent(m, G) ==
    [m EXCEPT ![G] = [@ EXCEPT !.st = "erased", !.blocks = <<>>]]

\* The id given to the next global created.
FreshId(m) == CHOOSE i \in DOMAIN m :
    /\ m[i].st = "none"
    /\ \A j \in DOMAIN m : m[j].st = "none" => i <= j

\* A WeakVH reads as null once its function is erased.
WeakVHNull(m, f) == m[f].st = "erased"


(***************************************************************************)
(* MergeFunctions.  The rewriters work on a record                         *)
(*   [mod, FnSet, Deferred, stats, ev]                                     *)
(* of the module, the pass's containers and counters, and ev, the events   *)
(* of the insert() under way (read by the properties only).  ord is the    *)
(* order in which the use lists are walked: a sequence of function ids.    *)
(***************************************************************************)
NoEvents ==
    [kind |-> "none",       \* what insert() did: unique | tiny | merge
     NewF |-> 0, OldF |-> 0,
     assertFailed |-> FALSE,    \* an assert of insert/mergeTwoFunctions failed
     rewritten |-> {},      \* callers whose call was redirected
     inSetBefore |-> {},    \* those of them FnSet held at the rewrite
     erased |-> {},         \* functions erased
     erasedInUse |-> {},    \* those erased while uses of them remained
     erasedInSet |-> {},    \* those erased while FnSet held them
     compared |-> {}]       \* functions handed to the comparator

ZeroStats ==
    [NumFunctionsMerged |-> 0, NumThunksWritten |-> 0,
     NumAliasesWritten |-> 0, NumDoubleWeak |-> 0]

\* ComparableFunction(Func, DL): the function with its hash.
ComparableFunction(m, F) == [func |-> F, hash |-> profileFunction(m[F])]

SetFuncs(set) == {e.func : e \in set}

\* DenseMapInfo<ComparableFunction>::isEqual.  LHS is the key looked up,
\* RHS a key of the set; lookupOnly is LHS.getDataLayout() == LookupOnly.
isEqual(m, dl, LHS, RHS, lookupOnly) ==
    IF LHS.func = RHS.func /\ LHS.hash = RHS.hash THEN TRUE
    ELSE IF LHS.func = 0 \/ RHS.func = 0 THEN FALSE
    ELSE IF lookupOnly THEN FALSE
    ELSE compare(m, dl, LHS.func, RHS.func)

\* The keys of FnSet a lookup of CF may end at: those in CF's hash bucket
\* that isEqual accepts.
LookupBucketFor(m, dl, set, CF, lookupOnly) ==
    {e \in set : e.hash = CF.hash /\ isEqual(m, dl, CF, e, lookupOnly)}

\* remove() made to queue F and leave its key in FnSet.
remove_KeepKey(st, F) == [st EXCEPT !.Deferred = Append(@, F)]

\* remove() made to queue F whether FnSet held it or not.
remove_QueueAlways(st, F) ==
    [st EXCEPT !.FnSet = @ \ LookupBucketFor(st.mod, DL, st.FnSet,
                                  ComparableFunction(st.mod, F), TRUE),
               !.Deferred = Append(@, F)]

\* remove() made to look F up with the full comparison.
remove_ByEquality(st, F) ==
    With(LookupBucketFor(st.mod, DL, st.FnSet,
                         ComparableFunction(st.mod, F), FALSE),
         LAMBDA found :
             IF found # {}
             THEN [st EXCEPT !.FnSet = @ \ found, !.Deferred = Append(@, F)]
             ELSE st)

\* MergeFunctions::remove.
remove(st, F) ==
    With(LookupBucketFor(st.mod, DL, st.FnSet,
                         ComparableFunction(st.mod, F), TRUE),
         LAMBDA found :
             IF found # {}
             THEN [st EXCEPT !.FnSet = @ \ found, !.Deferred = Append(@, F)]
             ELSE st)

RECURSIVE removeEach(_, _, _, _)

\* remove() of the functions of S, in the order ord from position i on.
removeEach(st, S, ord, i) ==
    IF i > Len(ord) THEN st
    ELSE removeEach(IF ord[i] \in S THEN remove(st, ord[i]) ELSE st,
                    S, ord, i + 1)

\* replaceDirectCallers made to rewrite every operand that names Old.
replaceDirectCallers_AllUses(st, Old, New, ord) ==
    LET callers == DirectCallers(st.mod, Old)
        BitcastNew == getBitCast(st.mod, FnV(New), FnPtrType(st.mod[Old]))
    IN  [removeEach(st, callers, ord, 1) EXCEPT
            !.mod = [p \in DOMAIN st.mod |->
                        IF HasBody(st.mod[p])
                        THEN MapOperands(st.mod[p],
                                LAMBDA I, i, v :
                                    IF v = FnV(Old) THEN BitcastNew ELSE v)
                        ELSE st.mod[p]],
            !.ev.rewritten = @ \cup callers,
            !.ev.inSetBefore = @ \cup (callers \cap SetFuncs(st.FnSet))]

\* MergeFunctions::replaceDirectCallers.
replaceDirectCallers(st, Old, New, ord) ==
    LET callers == DirectCallers(st.mod, Old)
        BitcastNew == getBitCast(st.mod, FnV(New), FnPtrType(st.mod[Old]))
    IN  [removeEach(st, callers, ord, 1) EXCEPT
            !.mod = [p \in DOMAIN st.mod |->
                        IF p \in callers
                        THEN MapOperands(st.mod[p],
                                LAMBDA I, i, v :
                                    IF v = FnV(Old) /\ isCallee(I, i)
                                    THEN BitcastNew ELSE v)
                        ELSE st.mod[p]],
            !.ev.rewritten = @ \cup callers,
            !.ev.inSetBefore = @ \cup (callers \cap SetFuncs(st.FnSet))]

\* The functions removeUsers(G) hands to remove(): the parents of the
\* instructions that use G, and, for a constant expression C on G, the
\* parents of the instructions that use an instruction using C (the
\* worklist is given the users of C, and the loop walks their users).
UsersToRemove(m, G) ==
    {p \in DOMAIN m :
        /\ HasBody(m[p])
        /\ \/ \E pos \in OperandPositions(m[p]) : OperandAt(m[p], pos) = FnV(G)
           \/ \E pos \in OperandPositions(m[p]) :
                /\ OperandAt(m[p], pos).k = "cast"
                /\ OperandAt(m[p], pos).f = G
                /\ \E q \in OperandPositions(m[p]) :
                      OperandAt(m[p], q) = InstV(pos[1], pos[2])}

\* MergeFunctions::removeUsers.
removeUsers(st, V, ord) == removeEach(st, UsersToRemove(st.mod, V), ord, 1)

\* Function::eraseFromParent, with the events the properties read.
erase(st, G) ==
    [st EXCEPT
        !.mod = eraseFromParent(st.mod, G),
        !.ev.erased = @ \cup {G},
        !.ev.erasedInUse =
            @ \cup (IF use_empty(eraseFromParent(st.mod, G), G)
                    THEN {} ELSE {G}),
        !.ev.erasedInSet = @ \cup ({G} \cap SetFuncs(st.FnSet))]

\* createCast made to bit-cast whatever the types.
createCast_BitCast(SrcTy, DestTy) == "bitcast"

\* createCast: the cast writeThunk puts on a value of type SrcTy.
createCast(SrcTy, DestTy) ==
    IF SrcTy.id = "Integer" /\ DestTy.id = "Pointer" THEN "inttoptr"
    ELSE IF SrcTy.id = "Pointer" /\ DestTy.id = "Integer" THEN "ptrtoint"
    ELSE "bitcast"

\* The body of the thunk NewG of writeThunk(F, G), f being F's id: one
\* block that casts each argument that needs it, tail-calls F and returns
\* the (cast) result.  IRBuilder makes no instruction for a cast to the
\* value's own type.
ThunkBlocks(f, F, G) ==
    LET np == Len(G.params)
        needs == [i \in 1..np |-> G.params[i] # F.params[i]]
        castIdx == [i \in 1..np |-> Cardinality({j \in 1..i : needs[j]})]
        ncast == IF np = 0 THEN 0 ELSE castIdx[np]
        casts == [c \in 1..ncast |->
                     LET i == CHOOSE j \in 1..np : needs[j] /\ castIdx[j] = c
                     IN  MkInst(createCast(G.params[i], F.params[i]),
                                F.params[i], <<ArgV(i)>>)]
        Args == [i \in 1..np |->
                    IF needs[i] THEN InstV(1, castIdx[i]) ELSE ArgV(i)]
        CI == [MkInst("call", F.ret, Args \o <<FnV(f)>>)
                  EXCEPT !.opt = 1, !.cc = F.cc]
        tail == IF G.ret.id = "Void" THEN <<MkInst("ret", VoidTy, <<>>)>>
                ELSE IF G.ret = F.ret
                THEN <<MkInst("ret", VoidTy, <<InstV(1, ncast + 1)>>)>>
                ELSE <<MkInst(createCast(F.ret, G.ret), G.ret,
                              <<InstV(1, ncast + 1)>>),
                       MkInst("ret", VoidTy, <<InstV(1, ncast + 2)>>)>>
    IN  <<[insts |-> casts \o <<CI>> \o tail]>>

\* The end of writeThunk and writeAlias without the replaceAllUsesWith.
replaceAndErase_NoRAUW(st, G, New) == erase(st, G)

\* G->replaceAllUsesWith(New); G->eraseFromParent(): the end of writeThunk
\* and of writeAlias.
replaceAndErase(st, G, New) ==
    erase([st EXCEPT !.mod = replaceAllUsesWith(st.mod, G, New)], G)

\* writeThunk after the callers are redirected, without the test that
\* erases a local function left without uses: G always gets a thunk.
writeThunkBody_AlwaysThunk(s1, F, G, ord) ==
    LET NewG == FreshId(s1.mod)
        thunk == [s1.mod[G] EXCEPT
                     !.blocks = ThunkBlocks(F, s1.mod[F], s1.mod[G])]
    IN  [replaceAndErase(
             removeUsers([s1 EXCEPT !.mod[NewG] = thunk], G, ord),
             G, NewG)
           EXCEPT !.stats.NumThunksWritten = @ + 1]

\* writeThunk after the callers are redirected: G is erased at once, or
\* replaced by the thunk NewG.
writeThunkBody(s1, F, G, ord) ==
    IF hasLocalLinkage(s1.mod[G]) /\ use_empty(s1.mod, G)
    THEN erase(s1, G)
    ELSE LET NewG == FreshId(s1.mod)
             thunk == [s1.mod[G] EXCEPT
                          !.blocks = ThunkBlocks(F, s1.mod[F], s1.mod[G])]
         IN  [replaceAndErase(
                  removeUsers([s1 EXCEPT !.mod[NewG] = thunk], G, ord),
                  G, NewG)
                EXCEPT !.stats.NumThunksWritten = @ + 1]

\* writeThunk made to redirect the callers of G whatever G's linkage.
writeThunk_AlwaysRedirect(st, F, G, ord) ==
    writeThunkBody(replaceDirectCallers(st, G, F, ord), F, G, ord)

\* MergeFunctions::writeThunk.
writeThunk(st, F, G, ord) ==
    writeThunkBody(IF ~mayBeOverridden(st.mod[G])
                   THEN replaceDirectCallers(st, G, F, ord) ELSE st,
                   F, G, ord)

\* MergeFunctions::writeAlias.
writeAlias(st, F, G, ord) ==
    LET GA == FreshId(st.mod)
        Gf == st.mod[G]
        alias == [Gf EXCEPT !.st = "alias", !.blocks = <<>>, !.aliasee = F]
    IN  [replaceAndErase(
             removeUsers([st EXCEPT
                             !.mod[GA] = alias,
                             !.mod[F].align =
                                 IF st.mod[F].align >= Gf.align
                                 THEN st.mod[F].align ELSE Gf.align],
                         G, ord),
             G, GA)
           EXCEPT !.stats.NumAliasesWritten = @ + 1]

\* writeThunkOrAlias made to replace the incumbent F by a thunk to G.
writeThunkOrAlias_Swapped(st, F, G, ord) == writeThunk(st, G, F, ord)

\* writeThunkOrAlias without the test of HasGlobalAliases.
writeThunkOrAlias_NoFlagTest(st, F, G, ord) ==
    IF /\ st.mod[G].unnamed_addr
       /\ \/ hasExternalLinkage(st.mod[G]) \/ hasLocalLinkage(st.mod[G])
          \/ hasWeakLinkage(st.mod[G])
    THEN writeAlias(st, F, G, ord)
    ELSE writeThunk(st, F, G, ord)

\* MergeFunctions::writeThunkOrAlias.
writeThunkOrAlias(st, F, G, ord) ==
    IF /\ HasGlobalAliases /\ st.mod[G].unnamed_addr
       /\ \/ hasExternalLinkage(st.mod[G]) \/ hasLocalLinkage(st.mod[G])
          \/ hasWeakLinkage(st.mod[G])
    THEN writeAlias(st, F, G, ord)
    ELSE writeThunk(st, F, G, ord)

\* The two writeAlias calls of mergeTwoFunctions, F's linkage left as it
\* is.
writeBothAliases_KeepLinkage(s3, F, G, H, ord) ==
    LET MaxAlignment == IF s3.mod[G].align >= s3.mod[H].align
                        THEN s3.mod[G].align ELSE s3.mod[H].align
    IN  [writeAlias(writeAlias(s3, F, G, ord), F, H, ord)
           EXCEPT !.mod[F].align = MaxAlignment]

\* The two writeAlias calls of mergeTwoFunctions and what follows them,
\* s3 being the state after F's uses are handed to H.
writeBothAliases(s3, F, G, H, ord) ==
    LET MaxAlignment == IF s3.mod[G].align >= s3.mod[H].align
                        THEN s3.mod[G].align ELSE s3.mod[H].align
    IN  [writeAlias(writeAlias(s3, F, G, ord), F, H, ord)
           EXCEPT !.mod[F].align = MaxAlignment,
                  !.mod[F].linkage = "private"]

\* The branch of mergeTwoFunctions that makes F and G aliases of one
\* private function: H is a declaration that takes F's place and name.
mergeDoubleWeakAliases(st, F, G, ord) ==
    LET H == FreshId(st.mod)
        Ff == st.mod[F]
    IN  writeBothAliases(
            With(removeUsers([st EXCEPT
                                 !.mod[H] = [Ff EXCEPT !.st = "decl",
                                                       !.blocks = <<>>],
                                 !.mod[F].name = 0],
                             F, ord),
                 LAMBDA s2 :
                     [s2 EXCEPT !.mod = replaceAllUsesWith(s2.mod, F, H)]),
            F, G, H, ord)

\* MergeFunctions::mergeTwoFunctions.
mergeTwoFunctions(st, F, G, ord) ==
    [(IF mayBeOverridden(st.mod[F])
      THEN [(IF HasGlobalAliases
             THEN mergeDoubleWeakAliases(
                      [st EXCEPT !.ev.assertFailed =
                          @ \/ ~mayBeOverridden(st.mod[G])], F, G, ord)
             ELSE replaceDirectCallers(
                      [st EXCEPT !.ev.assertFailed =
                          @ \/ ~mayBeOverridden(st.mod[G])], G, F, ord))
              EXCEPT !.stats.NumDoubleWeak = @ + 1]
      ELSE writeThunkOrAlias(st, F, G, ord))
       EXCEPT !.stats.NumFunctionsMerged = @ + 1]

\* The tiny-function test made to spare one-instruction functions only.
isTiny_OneInstruction(F) == Len(F.blocks) = 1 /\ Len(F.blocks[1].insts) <= 1

\* The tiny-function test of insert().
isTiny(F) == Len(F.blocks) = 1 /\ Len(F.blocks[1].insts) <= 2

\* insert() made to queue the newcomer again after merging it.
insert_Requeue(st, NewF, OldF, ord) ==
    LET s0 == [st EXCEPT !.ev = [NoEvents EXCEPT !.NewF = NewF, !.OldF = OldF]]
    IN  IF OldF = 0
        THEN [s0 EXCEPT !.FnSet = @ \cup {ComparableFunction(st.mod, NewF)},
                        !.ev.kind = "unique"]
        ELSE IF isTiny(st.mod[NewF])
        THEN [s0 EXCEPT !.ev.kind = "tiny"]
        ELSE [mergeTwoFunctions([s0 EXCEPT !.ev.kind = "merge"],
                                OldF, NewF, ord)
                EXCEPT !.Deferred = Append(@, NewF)]

\* insert() made to queue a tiny newcomer for the next iteration.
insert_DeferTiny(st, NewF, OldF, ord) ==
    LET s0 == [st EXCEPT !.ev = [NoEvents EXCEPT !.NewF = NewF, !.OldF = OldF]]
    IN  IF OldF = 0
        THEN [s0 EXCEPT !.FnSet = @ \cup {ComparableFunction(st.mod, NewF)},
                        !.ev.kind = "unique"]
        ELSE IF isTiny(st.mod[NewF])
        THEN [s0 EXCEPT !.ev.kind = "tiny", !.Deferred = Append(@, NewF)]
        ELSE mergeTwoFunctions(
                 [s0 EXCEPT !.ev.kind = "merge",
                            !.ev.assertFailed =
                                /\ mayBeOverridden(st.mod[OldF])
                                /\ ~mayBeOverridden(st.mod[NewF])],
                 OldF, NewF, ord)

\* MergeFunctions::insert.  OldF is the key FnSet.insert(NewF) ends at,
\* 0 when the set holds no equal key.  ev.kind = "merge" stands for the
\* result true.
insert(st, NewF, OldF, ord) ==
    LET s0 == [st EXCEPT !.ev = [NoEvents EXCEPT !.NewF = NewF, !.OldF = OldF]]
    IN  IF OldF = 0
        THEN [s0 EXCEPT !.FnSet = @ \cup {ComparableFunction(st.mod, NewF)},
                        !.ev.kind = "unique"]
        ELSE IF isTiny(st.mod[NewF])
        THEN [s0 EXCEPT !.ev.kind = "tiny"]
        ELSE mergeTwoFunctions(
                 [s0 EXCEPT !.ev.kind = "merge",
                            !.ev.assertFailed =
                                /\ mayBeOverridden(st.mod[OldF])
                                /\ ~mayBeOverridden(st.mod[NewF])],
                 OldF, NewF, ord)

(***************************************************************************)
(* The modules handed to the pass.                                         *)
(***************************************************************************)
AddI(a, b) == MkInst("add", IntTy(32), <<a, b>>)
RetI(v) == MkInst("ret", VoidTy, <<v>>)
CallI(k, args) == MkInst("call", IntTy(32), args \o <<FnV(k)>>)

\* %1 = add a1, a2 ; %2 = add %1, a1 ; ret %2
LeafBody ==
    <<[insts |-> <<AddI(ArgV(1), ArgV(2)), AddI(InstV(1, 1), ArgV(1)),
                   RetI(InstV(1, 2))>>]>>

\* %1 = add a1, a2 ; ret %1
AddBody == <<[insts |-> <<AddI(ArgV(1), ArgV(2)), RetI(InstV(1, 1))>>]>>

\* %1 = call k(a1, a2) ; %2 = add %1, a1 ; ret %2
CallBody(k) ==
    <<[insts |-> <<CallI(k, <<ArgV(1), ArgV(2)>>), AddI(InstV(1, 1), ArgV(1)),
                   RetI(InstV(1, 2))>>]>>

\* %1 = ptrtoint @k ; %2 = add %1, a1 ; ret %2
AddressBody(k) ==
    <<[insts |-> <<MkInst("ptrtoint", IntTy(32), <<FnV(k)>>),
                   AddI(InstV(1, 1), ArgV(1)), RetI(InstV(1, 2))>>]>>

DriverLinkages == {"external", "internal", "weak"}
DriverBodies ==
    {LeafBody, AddBody} \cup {CallBody(k) : k \in FuncIds}
                        \cup {AddressBody(k) : k \in FuncIds}

DriverModules ==
    {[i \in Ids |->
         IF i \in FuncIds THEN MkFunction(i, lk[i], bd[i]) ELSE NoFunction] :
       lk \in [FuncIds -> DriverLinkages], bd \in [FuncIds -> DriverBodies]}

DataLayouts == {[present |-> FALSE, bits |-> 0], [present |-> TRUE, bits |-> 64]}

\* The driver's modules hold no pointer-typed argument or result, and the
\* function pointers they hold are all of one type: the comparator gives
\* the same answers with and without a DataLayout, so one is followed.
DriverLayouts == {[present |-> TRUE, bits |-> 64]}

RECURSIVE Orderings(_)

\* The sequences that list each element of the set S once.
Orderings(S) ==
    IF S = {} THEN {<<>>}
    ELSE UNION {{<<x>> \o o : o \in Orderings(S \ {x})} : x \in S}

\* The orders in which the use lists of F and G may hand functions to
\* remove(): the orderings of the functions that use F or G.
UseOrders(m, set, F, G) ==
    Orderings({p \in DOMAIN m :
                  /\ HasBody(m[p])
                  /\ \E pos \in OperandPositions(m[p]) :
                        \/ RefersTo(OperandAt(m[p], pos), F)
                        \/ RefersTo(OperandAt(m[p], pos), G)})

(***************************************************************************)
(* MergeFunctions::runOnModule, one action per step.                       *)
(***************************************************************************)
PassState ==
    [mod |-> mod, FnSet |-> FnSet, Deferred |-> Deferred, stats |-> stats,
     ev |-> NoEvents]

RECURSIVE DefinedFunctions(_, _)

\* The first loop of runOnModule: the functions with a body, in module
\* order from id i on.
DefinedFunctions(m, i) ==
    IF i \notin DOMAIN m THEN <<>>
    ELSE (IF /\ m[i].st \in {"live", "decl"}
             /\ ~isDeclaration(m[i])
             /\ ~hasAvailableExternallyLinkage(m[i])
          THEN <<i>> ELSE <<>>) \o DefinedFunctions(m, i + 1)

\* Entry of runOnModule, up to the do/while loop.
RunOnModule ==
    /\ pc = "entry"
    /\ Changed' = FALSE
    /\ Deferred' = Deferred \o DefinedFunctions(mod, 1)
    /\ pc' = "swap"
    /\ iter' = 0
    /\ hist' = [ev |-> NoEvents, base |-> stats, entry |-> mod,
                iterBase |-> stats, inserted |-> {}]
    /\ UNCHANGED <<mod, DL, HasGlobalAliases, FnSet, Worklist, idx, stats, run>>
    /\ UNCHANGED cmpVars

\* Top of the loop body: Deferred.swap(Worklist).
SwapWorklist ==
    /\ pc = "swap"
    /\ iter < MaxIter
    /\ Worklist' = Deferred
    /\ Deferred' = <<>>
    /\ idx' = 1
    /\ pc' = "strong"
    /\ iter' = iter + 1
    /\ hist' = [hist EXCEPT !.ev = NoEvents, !.iterBase = stats,
                            !.inserted = {}]
    /\ UNCHANGED <<mod, DL, HasGlobalAliases, FnSet, Changed, stats, run>>
    /\ UNCHANGED cmpVars

\* The assignments of a turn with Changed = insert(CF) for Changed |= it.
AfterInsert_Assign(s, compared) ==
    /\ mod' = s.mod
    /\ FnSet' = s.FnSet
    /\ Deferred' = s.Deferred
    /\ stats' = s.stats
    /\ Changed' = (s.ev.kind = "merge")
    /\ hist' = [hist EXCEPT !.ev = [s.ev EXCEPT !.compared = compared],
                            !.inserted = @ \cup {s.ev.NewF}]

\* The assignments of a turn that called insert(): s is the state insert
\* left, compared the functions the set lookup took to the comparator.
AfterInsert(s, compared) ==
    /\ mod' = s.mod
    /\ FnSet' = s.FnSet
    /\ Deferred' = s.Deferred
    /\ stats' = s.stats
    /\ Changed' = (Changed \/ s.ev.kind = "merge")
    /\ hist' = [hist EXCEPT !.ev = [s.ev EXCEPT !.compared = compared],
                            !.inserted = @ \cup {s.ev.NewF}]

\* The keys FnSet.insert(CF) may end at (0: none, CF is inserted).
InsertEnds(found) == IF found = {} THEN {0} ELSE SetFuncs(found)

\* One turn of a loop made to insert the entry whatever its strength.
InsertEntry_AnyStrength(weakPass) ==
    LET F == Worklist[idx]
        CF == ComparableFunction(mod, F)
    IN  /\ idx' = idx + 1
        /\ UNCHANGED <<DL, HasGlobalAliases, Worklist, pc, run, iter>>
        /\ UNCHANGED cmpVars
        /\ IF \/ WeakVHNull(mod, F)
              \/ isDeclaration(mod[F])
              \/ hasAvailableExternallyLinkage(mod[F])
           THEN /\ UNCHANGED <<mod, FnSet, Deferred, stats, Changed>>
                /\ hist' = [hist EXCEPT !.ev = NoEvents]
           ELSE \E OldF \in InsertEnds(LookupBucketFor(mod, DL, FnSet, CF,
                                                       FALSE)) :
                \E ord \in UseOrders(mod, FnSet, F, OldF) :
                    AfterInsert(insert(PassState, F, OldF, ord),
                                {F} \cup {e.func : e \in
                                    {x \in FnSet : x.hash = CF.hash}})

\* One turn of a loop over Worklist: entry idx is skipped, or inserted
\* when its function is of the pass's strength.
InsertEntry(weakPass) ==
    LET F == Worklist[idx]
        CF == ComparableFunction(mod, F)
    IN  /\ idx' = idx + 1
        /\ UNCHANGED <<DL, HasGlobalAliases, Worklist, pc, run, iter>>
        /\ UNCHANGED cmpVars
        /\ IF \/ WeakVHNull(mod, F)
              \/ isDeclaration(mod[F])
              \/ hasAvailableExternallyLinkage(mod[F])
              \/ mayBeOverridden(mod[F]) # weakPass
           THEN /\ UNCHANGED <<mod, FnSet, Deferred, stats, Changed>>
                /\ hist' = [hist EXCEPT !.ev = NoEvents]
           ELSE \E OldF \in InsertEnds(LookupBucketFor(mod, DL, FnSet, CF,
                                                       FALSE)) :
                \E ord \in UseOrders(mod, FnSet, F, OldF) :
                    AfterInsert(insert(PassState, F, OldF, ord),
                                {F} \cup {e.func : e \in
                                    {x \in FnSet : x.hash = CF.hash}})

\* The loop over the strong functions.
InsertStrong ==
    /\ pc = "strong"
    /\ idx <= Len(Worklist)
    /\ InsertEntry(FALSE)

\* End of the first loop.
EndStrong ==
    /\ pc = "strong"
    /\ idx > Len(Worklist)
    /\ pc' = "weak"
    /\ idx' = 1
    /\ hist' = [hist EXCEPT !.ev = NoEvents]
    /\ UNCHANGED <<mod, DL, HasGlobalAliases, FnSet, Deferred, Worklist,
                   Changed, stats, run, iter>>
    /\ UNCHANGED cmpVars

\* The loop over the weak functions.
InsertWeak ==
    /\ pc = "weak"
    /\ idx <= Len(Worklist)
    /\ InsertEntry(TRUE)

\* End of the loop body: the while test, and the return after the loop.
EndWeak ==
    /\ pc = "weak"
    /\ idx > Len(Worklist)
    /\ IF Deferred # <<>>
       THEN pc' = "swap" /\ UNCHANGED FnSet
       ELSE pc' = "done" /\ FnSet' = {}
    /\ Worklist' = <<>>
    /\ hist' = [hist EXCEPT !.ev = NoEvents]
    /\ UNCHANGED <<mod, DL, HasGlobalAliases, Deferred, idx, Changed, stats,
                   run, iter>>
    /\ UNCHANGED cmpVars

\* The pass is run again on the module it returned.
RunAgain ==
    /\ pc = "done"
    /\ run < MaxRuns
    /\ run' = run + 1
    /\ pc' = "entry"
    /\ hist' = [hist EXCEPT !.ev = NoEvents]
    /\ UNCHANGED <<mod, DL, HasGlobalAliases, FnSet, Deferred, Worklist, idx,
                   Changed, stats, iter>>
    /\ UNCHANGED cmpVars

\* The history before the first run: the events of the last insert(), the
\* counters and the module at the entry of the run, the counters at the top
\* of the iteration, and the functions inserted in the iteration.
NoHistory ==
    [ev |-> NoEvents, base |-> ZeroStats, entry |-> <<>>,
     iterBase |-> ZeroStats, inserted |-> {}]

\* No type has been handed to cmpType.
NoTypes == cmpTyL = VoidTy /\ cmpTyR = VoidTy /\ cmpTyRes = <<>>

NoComparison ==
    /\ cmpF1 = 0 /\ cmpF2 = 0
    /\ id_map = <<>> /\ seen_values = {}
    /\ enumLog = <<>> /\ cmpRes = <<>>
    /\ NoTypes

Init ==
    /\ mod \in DriverModules
    /\ DL \in DriverLayouts
    /\ HasGlobalAliases = FALSE
    /\ FnSet = {} /\ Deferred = <<>> /\ Worklist = <<>>
    /\ pc = "entry" /\ idx = 1 /\ Changed = FALSE
    /\ stats = ZeroStats
    /\ run = 1 /\ iter = 0
    /\ hist = NoHistory
    /\ NoComparison

Next ==
    \/ RunOnModule
    \/ SwapWorklist
    \/ InsertStrong
    \/ EndStrong
    \/ InsertWeak
    \/ EndWeak
    \/ RunAgain

Spec == Init /\ [][Next]_vars

(***************************************************************************)
(* The comparator and the hash on their own: every ordered pair of the     *)
(* functions of a module is compared and hashed, the unreachable blocks    *)
(* are deleted, and the pairs are compared and hashed again.               *)
(***************************************************************************)
BrI(b) == MkInst("br", VoidTy, <<BBV(b)>>)

\* ret a1
RetBody == <<[insts |-> <<RetI(ArgV(1))>>]>>

\* br bb2 ; bb2: the instructions of LeafBody
JumpBody == <<[insts |-> <<BrI(2)>>]>> \o
    <<[insts |-> <<AddI(ArgV(1), ArgV(2)), AddI(InstV(2, 1), ArgV(1)),
                   RetI(InstV(2, 2))>>]>>

\* br bb3 ; bb2 (no predecessor): ret a2 ; bb3: the instructions of LeafBody
JumpOverBody == <<[insts |-> <<BrI(3)>>], [insts |-> <<RetI(ArgV(2))>>]>> \o
    <<[insts |-> <<AddI(ArgV(1), ArgV(2)), AddI(InstV(3, 1), ArgV(1)),
                   RetI(InstV(3, 2))>>]>>

\* The body with a block appended that no branch leads to.
WithDeadBlock(blocks) == blocks \o <<[insts |-> <<RetI(ArgV(2))>>]>>

CmpBodies ==
    {LeafBody, WithDeadBlock(LeafBody), RetBody, WithDeadBlock(RetBody),
     JumpBody, JumpOverBody} \cup {CallBody(k) : k \in FuncIds}

\* T f(T a1) { return a1; }
IdentityFunction(name, T) ==
    [MkFunction(name, "external", RetBody) EXCEPT !.ret = T, !.params = <<T>>]

CmpTypes == {IntTy(64), PtrTy(0, IntTy(8))}

CmpFunctions(name) ==
    {MkFunction(name, "external", b) : b \in CmpBodies}
        \cup {IdentityFunction(name, T) : T \in CmpTypes}

\* Every call passes the callee's parameter types.
CallsWellTyped(m) ==
    \A p \in FuncIds : \A pos \in OperandPositions(m[p]) :
        OperandAt(m[p], pos).k = "fn" =>
            m[OperandAt(m[p], pos).f].params = DefaultParams

CmpModules ==
    {m \in {[i \in Ids |-> IF i \in FuncIds THEN fs[i] ELSE NoFunction] :
               fs \in [FuncIds -> UNION {CmpFunctions(n) : n \in FuncIds}]} :
        /\ \A i \in FuncIds : m[i].name = i
        /\ CallsWellTyped(m)}

RECURSIVE ReachableFrom(_, _)

\* The blocks of F that a path of successors from the blocks S leads to.
ReachableFrom(F, S) ==
    LET N == S \cup UNION {{Succs(F.blocks[b])[i] :
                               i \in 1..Len(Succs(F.blocks[b]))} : b \in S}
    IN  IF N = S THEN S ELSE ReachableFrom(F, N)

\* F without the blocks that are not reachable from its entry block; the
\* blocks left keep their order and are numbered anew.
removeUnreachableBlocks(F) ==
    LET kept == ReachableFrom(F, {1})
        new == [b \in kept |-> Cardinality({r \in kept : r <= b})]
        old == [i \in 1..Cardinality(kept) |-> CHOOSE b \in kept : new[b] = i]
        G == [F EXCEPT !.blocks = [i \in 1..Cardinality(kept) |->
                                      F.blocks[old[i]]]]
    IN  MapOperands(G, LAMBDA I, i, v :
            IF v.k = "bb" THEN BBV(new[v.b])
            ELSE IF v.k = "inst" THEN InstV(new[v.b], v.n)
            ELSE v)

\* Whether insert() merges function g when FnSet holds function f alone.
insertMerges(m, dl, f, g) ==
    /\ f # g
    /\ With(LookupBucketFor(m, dl, {ComparableFunction(m, f)},
                            ComparableFunction(m, g), FALSE),
            LAMBDA found :
                insert([mod |-> m, FnSet |-> {ComparableFunction(m, f)},
                        Deferred |-> <<>>, stats |-> ZeroStats,
                        ev |-> NoEvents],
                       g, IF found = {} THEN 0 ELSE f, <<f>>).ev.kind
                    = "merge")

InitCmp ==
    /\ mod \in CmpModules
    /\ DL \in DataLayouts
    /\ HasGlobalAliases = FALSE
    /\ FnSet = {} /\ Deferred = <<>> /\ Worklist = <<>>
    /\ pc = "compare" /\ idx = 1 /\ Changed = FALSE
    /\ stats = ZeroStats
    /\ run = 1 /\ iter = 0
    /\ hist = NoHistory
    /\ cmpF1 = 1 /\ cmpF2 = 1
    /\ id_map = <<>> /\ seen_values = {}
    /\ enumLog = <<>> /\ cmpRes = <<>>
    /\ NoTypes

\* FunctionComparator(DL, F1, F2).compare(), profileFunction and the
\* decision of insert() for the pair (cmpF1, cmpF2); then the next pair.
Compare ==
    /\ pc \in {"compare", "compare_stripped"}
    /\ cmpF1 <= NumFuncs
    /\ cmpRes' = cmpRes @@
          (<<pc, cmpF1, cmpF2>> :>
              [equal |-> compare(mod, DL, cmpF1, cmpF2),
               hash1 |-> profileFunction(mod[cmpF1]),
               hash2 |-> profileFunction(mod[cmpF2]),
               merged |-> insertMerges(mod, DL, cmpF1, cmpF2),
               id_map |-> compareState(mod, DL, cmpF1, cmpF2).id_map])
    /\ IF cmpF2 < NumFuncs
       THEN cmpF2' = cmpF2 + 1 /\ cmpF1' = cmpF1
       ELSE cmpF2' = 1 /\ cmpF1' = cmpF1 + 1
    /\ UNCHANGED <<mod, DL>>
    /\ UNCHANGED driverVars
    /\ UNCHANGED <<id_map, seen_values, enumLog>>
    /\ UNCHANGED typeVars

\* The unreachable blocks of every function are deleted.
DeleteUnreachable ==
    /\ pc = "compare"
    /\ cmpF1 > NumFuncs
    /\ mod' = [i \in DOMAIN mod |->
                  IF HasBody(mod[i]) THEN removeUnreachableBlocks(mod[i])
                  ELSE mod[i]]
    /\ pc' = "compare_stripped"
    /\ cmpF1' = 1 /\ cmpF2' = 1
    /\ UNCHANGED <<DL, HasGlobalAliases, FnSet, Deferred, Worklist, idx,
                   Changed, stats, run, iter, hist>>
    /\ UNCHANGED <<id_map, seen_values, enumLog, cmpRes>>
    /\ UNCHANGED typeVars

NextCmp == Compare \/ DeleteUnreachable

CmpSpec == InitCmp /\ [][NextCmp]_vars

(***************************************************************************)
(* enumerate() on its own: one comparison of functions 1 and 2, in which   *)
(* enumerate is called on any values of the two, up to MaxEnum times.      *)
(***************************************************************************)
\* %1 = call k(a1, a2) ; ret %1
EnumBody(k) ==
    <<[insts |-> <<CallI(k, <<ArgV(1), ArgV(2)>>), RetI(InstV(1, 1))>>]>>

EnumModules ==
    {[i \in Ids |->
         IF i \in {1, 2} THEN MkFunction(i, "external", EnumBody(k[i]))
         ELSE IF i \in FuncIds THEN MkFunction(i, "external", LeafBody)
         ELSE NoFunction] :
       k \in [{1, 2} -> {1, 2}]}

\* The values of function F: arguments, blocks, instructions, operands.
ValuesOf(F) ==
    {ArgV(i) : i \in 1..Len(F.params)}
        \cup {BBV(b) : b \in 1..Len(F.blocks)}
        \cup UNION {{InstV(b, n) : n \in 1..Len(F.blocks[b].insts)} :
                      b \in 1..Len(F.blocks)}
        \cup {OperandAt(F, pos) : pos \in OperandPositions(F)}

InitEnum ==
    /\ mod \in EnumModules
    /\ DL \in DataLayouts
    /\ HasGlobalAliases = FALSE
    /\ FnSet = {} /\ Deferred = <<>> /\ Worklist = <<>>
    /\ pc = "enumerate" /\ idx = 1 /\ Changed = FALSE
    /\ stats = ZeroStats
    /\ run = 1 /\ iter = 0
    /\ hist = NoHistory
    /\ cmpF1 = 1 /\ cmpF2 = 2
    /\ id_map = <<>> /\ seen_values = {}
    /\ enumLog = <<>> /\ cmpRes = <<>>
    /\ NoTypes

\* The assignments of a call of enumerate that left the state cs.
AfterEnumerate(cs) ==
    /\ id_map' = cs.id_map
    /\ seen_values' = cs.seen_values
    /\ enumLog' = Append(enumLog, cs.ok)

\* One call enumerate(V1, V2); enumLog keeps what the calls returned.
Enumerate ==
    /\ pc = "enumerate"
    /\ Len(enumLog) < MaxEnum
    /\ \E V1 \in ValuesOf(mod[cmpF1]), V2 \in ValuesOf(mod[cmpF2]) :
          AfterEnumerate(enumerate([ok |-> TRUE, id_map |-> id_map,
                                    seen_values |-> seen_values],
                                   mod, DL, cmpF1, cmpF2, V1, V2))
    /\ UNCHANGED <<mod, DL>>
    /\ UNCHANGED driverVars
    /\ UNCHANGED <<cmpF1, cmpF2, cmpRes>>
    /\ UNCHANGED typeVars

NextEnum == Enumerate

EnumSpec == InitEnum /\ [][NextEnum]_vars

(***************************************************************************)
(* cmpType() on its own: one call on two types, with or without a          *)
(* DataLayout.                                                             *)
(***************************************************************************)
\* The types compared: integers of three widths, two floating-point
\* types, pointers in two address spaces, structs, arrays and function
\* types.
TypeUniverse ==
    {IntTy(8), IntTy(32), IntTy(64), FloatTy, [id |-> "Double"]}
    \cup {PtrTy(as, elem) : as \in {0, 1}, elem \in {IntTy(8), IntTy(64)}}
    \cup {StructTy(packed, elems) :
             packed \in BOOLEAN,
             elems \in {<<IntTy(64)>>, <<PtrTy(0, IntTy(8))>>,
                        <<PtrTy(0, IntTy(64))>>, <<IntTy(64), FloatTy>>}}
    \cup {ArrayTy(num, elem) :
             num \in {1, 2}, elem \in {IntTy(64), PtrTy(0, IntTy(8))}}
    \cup {FunctionTy(ret, params, vararg) :
             ret \in {VoidTy, IntTy(64)},
             params \in {<<>>, <<IntTy(64)>>, <<PtrTy(0, IntTy(8))>>},
             vararg \in BOOLEAN}

\* No DataLayout, or one with pointers of 32 or of 64 bits.
TypeLayouts == DataLayouts \cup {[present |-> TRUE, bits |-> 32]}

InitType ==
    /\ mod = [i \in Ids |-> NoFunction]
    /\ DL \in TypeLayouts
    /\ HasGlobalAliases = FALSE
    /\ FnSet = {} /\ Deferred = <<>> /\ Worklist = <<>>
    /\ pc = "cmpType" /\ idx = 1 /\ Changed = FALSE
    /\ stats = ZeroStats
    /\ run = 1 /\ iter = 0
    /\ hist = NoHistory
    /\ cmpF1 = 1 /\ cmpF2 = 1
    /\ id_map = <<>> /\ seen_values = {}
    /\ enumLog = <<>> /\ cmpRes = <<>>
    /\ cmpTyL \in TypeUniverse /\ cmpTyR \in TypeUniverse
    /\ cmpTyRes = <<>>

\* cmpType(TyL, TyR) under the DataLayout, if any.
CmpType ==
    /\ pc = "cmpType"
    /\ cmpTyRes = <<>>
    /\ cmpTyRes' = <<cmpType(DL, cmpTyL, cmpTyR)>>
    /\ UNCHANGED <<mod, DL, cmpTyL, cmpTyR>>
    /\ UNCHANGED driverVars
    /\ UNCHANGED <<cmpF1, cmpF2, id_map, seen_values, enumLog, cmpRes>>

\* Further calls of cmpType on the two types and a third: of the second
\* against the first, of each against itself and against the third.
CmpTypeThird ==
    /\ pc = "cmpType"
    /\ Len(cmpTyRes) = 1
    /\ \E TyC \in TypeUniverse :
          cmpTyRes' = cmpTyRes \o
              <<[third |-> TyC,
                 RL |-> cmpType(DL, cmpTyR, cmpTyL),
                 LL |-> cmpType(DL, cmpTyL, cmpTyL),
                 RC |-> cmpType(DL, cmpTyR, TyC),
                 LC |-> cmpType(DL, cmpTyL, TyC)]>>
    /\ UNCHANGED <<mod, DL, cmpTyL, cmpTyR>>
    /\ UNCHANGED driverVars
    /\ UNCHANGED <<cmpF1, cmpF2, id_map, seen_values, enumLog, cmpRes>>

NextType == CmpType \/ CmpTypeThird

TypeSpec == InitType /\ [][NextType]_vars

(***************************************************************************)
(* The pass on a module of two functions that differ in one place: in a    *)
(* field of the header, or in the volatility, ordering or scope of one     *)
(* memory instruction.                                                     *)
(***************************************************************************)
MemParams == <<PtrTy(0, IntTy(32)), IntTy(32)>>

\* %1 = load a1 ; store a2, a1 ; fence ; %4 = cmpxchg a1, a2, a2 ;
\* %5 = atomicrmw a1, a2 ; ret %1, as the instructions of block b
MemInsts(b) ==
    <<MkInst("load", IntTy(32), <<ArgV(1)>>),
      MkInst("store", VoidTy, <<ArgV(2), ArgV(1)>>),
      MkInst("fence", VoidTy, <<>>),
      MkInst("cmpxchg", IntTy(32), <<ArgV(1), ArgV(2), ArgV(2)>>),
      MkInst("atomicrmw", IntTy(32), <<ArgV(1), ArgV(2)>>),
      RetI(InstV(b, 1))>>

\* The memory instructions in the entry block.
MemBody == <<[insts |-> MemInsts(1)]>>

\* The memory instructions in a block that no branch leads to.
MemDeadBody ==
    <<[insts |-> <<AddI(ArgV(2), ArgV(2)), AddI(InstV(1, 1), ArgV(2)),
                   RetI(InstV(1, 2))>>],
      [insts |-> MemInsts(2)]>>

MemFunction(blocks) ==
    [MkFunction(0, "external", blocks) EXCEPT !.params = MemParams]

\* The functions the pairs are made from: headers at their defaults, and
\* headers that name a section and a GC strategy.
PairBases(blocks) ==
    {MemFunction(blocks),
     [MemFunction(blocks) EXCEPT !.section = ".text.a", !.gc = "ocaml"]}

HeaderFields == {"vararg", "cc", "attrs", "section", "gc"}

\* F with the header field t set to a value F does not have.
TweakHeader(F, t) ==
    CASE t = "vararg" -> [F EXCEPT !.vararg = TRUE]
      [] t = "cc" -> [F EXCEPT !.cc = 8]
      [] t = "attrs" -> [F EXCEPT !.attrs = 1]
      [] t = "section" -> [F EXCEPT !.section = ".text.b"]
      [] t = "gc" -> [F EXCEPT !.gc = "shadow-stack"]

\* The tags of the memory instructions of MemInsts: <<position, field>>.
InstTags ==
    ({1, 2, 4, 5} \X {"vol"}) \cup ({1, 2, 3, 4, 5} \X {"ord", "scope"})
        \cup {<<4, "ord2">>}

\* F with the tag t of the memory instruction of block b set to a value
\* it does not have.
TweakInst(F, b, t) ==
    [F EXCEPT !.blocks[b].insts[t[1]] =
        [@ EXCEPT ![t[2]] = IF t[2] = "vol" THEN TRUE
                            ELSE IF t[2] = "scope" THEN 1 ELSE 4]]

\* The pairs <<F, G>>: G is F with one header field or one tag changed.
TagPairs ==
    {<<F, TweakHeader(F, t)>> : F \in PairBases(MemBody), t \in HeaderFields}
        \cup {<<F, TweakInst(F, 1, t)>> :
                 F \in PairBases(MemBody), t \in InstTags}
        \cup {<<F, TweakInst(F, 2, t)>> :
                 F \in PairBases(MemDeadBody), t \in InstTags}

\* T f(T a1, T* a2) { store a1, a2 ; store a1, a2 ; ret a1 }, or the
\* same returning void; the function is unnamed_addr.
StoreFunction(T, void) ==
    [MkFunction(0, "external",
        <<[insts |-> <<MkInst("store", VoidTy, <<ArgV(1), ArgV(2)>>),
                       MkInst("store", VoidTy, <<ArgV(1), ArgV(2)>>),
                       IF void THEN MkInst("ret", VoidTy, <<>>)
                       ELSE RetI(ArgV(1))>>]>>)
       EXCEPT !.params = <<T, PtrTy(0, T)>>,
              !.ret = IF void THEN VoidTy ELSE T,
              !.unnamed_addr = TRUE]

\* The pairs of functions over a pointer or the pointer-sized integer.
TypedPairs ==
    {<<StoreFunction(T1, v), StoreFunction(T2, v)>> :
        T1 \in CmpTypes, T2 \in CmpTypes, v \in BOOLEAN}

PairLinkages == {"external", "internal", "weak"}

\* %1 = ptrtoint (bitcast @k to i8*) ; %2 = add %1, a1 ; ret %2, or the
\* same with a2 for %1 in the add, which leaves %1 without a use.
CastUseBody(k, used) ==
    <<[insts |-> <<MkInst("ptrtoint", IntTy(32),
                          <<CastV(k, PtrTy(0, IntTy(8)))>>),
                   AddI(IF used THEN InstV(1, 1) ELSE ArgV(2), ArgV(1)),
                   RetI(InstV(1, 2))>>]>>

\* The module of the pair pr, swapped or not, the two functions of the
\* linkages lk, and the third function given.
PairModule(pr, sw, lk, third) ==
    [i \in Ids |->
        IF i \in {1, 2}
        THEN [pr[IF sw THEN 3 - i ELSE i] EXCEPT !.name = i, !.linkage = lk[i]]
        ELSE IF i = 3 THEN third ELSE NoFunction]

\* The modules of two functions that differ in a tag, and those of two
\* functions over a pointer or an integer, alone or with a function that
\* takes the address of one of the two.
PairModules ==
    {PairModule(pr, sw, <<lk, lk>>, NoFunction) :
        pr \in TagPairs, sw \in BOOLEAN, lk \in PairLinkages}
    \cup
    {PairModule(pr, sw, lk, third) :
        pr \in TypedPairs, sw \in BOOLEAN,
        lk \in PairLinkages \X PairLinkages,
        third \in {NoFunction} \cup
            {MkFunction(3, "external", b) :
                b \in {AddressBody(k) : k \in {1, 2}} \cup
                      {CastUseBody(k, used) : k \in {1, 2},
                                              used \in BOOLEAN}}}

InitPair ==
    /\ mod \in PairModules
    /\ DL \in DataLayouts
    /\ HasGlobalAliases = FALSE
    /\ FnSet = {} /\ Deferred = <<>> /\ Worklist = <<>>
    /\ pc = "entry" /\ idx = 1 /\ Changed = FALSE
    /\ stats = ZeroStats
    /\ run = 1 /\ iter = 0
    /\ hist = NoHistory
    /\ NoComparison

PairSpec == InitPair /\ [][Next]_vars

(***************************************************************************)
(* The pass for a target that supports global aliases.  The constructor    *)
(* sets HasGlobalAliases to false and nothing in the pass sets it; this    *)
(* specification follows the branches that read it as true, on modules of  *)
(* functions without address identity (unnamed_addr).                      *)
(***************************************************************************)
\* Weak and external functions, aligned to 8 or not aligned, that call a
\* function or none.
AliasModules ==
    {[i \in Ids |->
         IF i \in FuncIds
         THEN [MkFunction(i, lk[i], bd[i]) EXCEPT !.unnamed_addr = TRUE,
                                                  !.align = al[i]]
         ELSE NoFunction] :
       lk \in [FuncIds -> {"weak", "external"}],
       bd \in [FuncIds -> {LeafBody} \cup {CallBody(k) : k \in FuncIds}],
       al \in [FuncIds -> {0, 8}]}

InitAlias ==
    /\ mod \in AliasModules
    /\ DL \in DriverLayouts
    /\ HasGlobalAliases = TRUE
    /\ FnSet = {} /\ Deferred = <<>> /\ Worklist = <<>>
    /\ pc = "entry" /\ idx = 1 /\ Changed = FALSE
    /\ stats = ZeroStats
    /\ run = 1 /\ iter = 0
    /\ hist = NoHistory
    /\ NoComparison

AliasSpec == InitAlias /\ [][Next]_vars

\* The control flow of runOnModule alone: every step of Next is a step of
\* Tick, and a step of Next is possible wherever one of Tick is.
ctl == <<pc, idx>>

Tick ==
    \/ pc = "entry" /\ pc' = "swap" /\ idx' = idx
    \/ pc = "swap" /\ iter < MaxIter /\ pc' = "strong" /\ idx' = 1
    \/ /\ pc \in {"strong", "weak"} /\ idx <= Len(Worklist)
       /\ pc' = pc /\ idx' = idx + 1
    \/ pc = "strong" /\ idx > Len(Worklist) /\ pc' = "weak" /\ idx' = 1
    \/ /\ pc = "weak" /\ idx > Len(Worklist)
       /\ pc' \in {"swap", "done"} /\ idx' = idx
    \/ pc = "done" /\ run < MaxRuns /\ pc' = "entry" /\ idx' = idx

\* The pass runs on: it takes its next step whenever there is one.
LiveSpec == Init /\ [][Next]_vars /\ WF_ctl(Tick)

(***************************************************************************)
(* Properties of the driver.                                               *)
(***************************************************************************)
InDeferred(f) == \E i \in 1..Len(Deferred) : Deferred[i] = f

\* C1: every run of runOnModule terminates: from its entry the do/while
\* loop reaches its exit, with an empty deferral queue.
C1_Terminates == (pc = "entry") ~> (pc = "done" /\ Deferred = <<>>)

\* A run left its loop after three or more iterations.
C1_Witness == pc = "done" /\ Deferred = <<>> /\ iter >= 3

\* C2: the asserts of insert() and mergeTwoFunctions never fail: when
\* insert() merges into an overridable incumbent, the newcomer is
\* overridable too.
C2_AssertsHold == ~hist.ev.assertFailed

\* C3: a second run of the pass on the module the first run returned merges
\* nothing and returns false.
C3_Idempotent ==
    (run >= 2 /\ pc # "entry") =>
        /\ ~Changed
        /\ stats.NumFunctionsMerged = hist.base.NumFunctionsMerged

\* C7 as stated: after replaceDirectCallers rewrote a call of a function,
\* that function is absent from FnSet and present in Deferred.
C7_CallersDeferred ==
    \A p \in hist.ev.rewritten : p \notin SetFuncs(FnSet) /\ InDeferred(p)

\* C7, amended: after replaceDirectCallers rewrote a call of a function,
\* that function is absent from FnSet, and it is in Deferred if FnSet held
\* it when the rewrite began.
C7_CallersInvalidated ==
    \A p \in hist.ev.rewritten :
        /\ p \notin SetFuncs(FnSet)
        /\ p \in hist.ev.inSetBefore => InDeferred(p)

\* A merge redirected a call made by a function FnSet held.
C7_Witness ==
    /\ hist.ev.kind = "merge"
    /\ hist.ev.inSetBefore # {}
    /\ \A p \in hist.ev.inSetBefore : InDeferred(p)

\* C8: a function has no uses left at the point it is erased, and no
\* operand or alias of the module refers to an erased function.
C8_NoDanglingUse ==
    /\ hist.ev.erasedInUse = {}
    /\ \A g \in DOMAIN mod : mod[g].st = "erased" => use_empty(mod, g)

\* A merge erased a function and a live function now names the thunk that
\* took the erased function's uses over.
C8_Witness ==
    /\ hist.ev.kind = "merge"
    /\ hist.ev.NewF \in hist.ev.erased
    /\ \E p \in FuncIds, t \in Ids \ FuncIds :
          /\ HasBody(mod[p]) /\ HasBody(mod[t])
          /\ mod[t].name = mod[hist.ev.NewF].name
          /\ \E pos \in OperandPositions(mod[p]) :
                OperandAt(mod[p], pos) = FnV(t)

\* C9: an erased function is never touched again: FnSet holds no erased
\* function and none is erased while FnSet holds it, and no turn of the
\* loops inserts, compares or merges a function erased before the turn.
C9_ErasedUntouched ==
    /\ [](/\ \A e \in FnSet : mod[e.func].st = "live"
          /\ hist.ev.erasedInSet = {})
    /\ [][\A f \in hist'.ev.compared \cup {hist'.ev.NewF, hist'.ev.OldF} :
              f # 0 => mod[f].st = "live"]_vars

\* A worklist entry whose function an earlier merge erased is skipped.
C9_Witness ==
    /\ pc \in {"strong", "weak"}
    /\ idx > 1
    /\ mod[Worklist[idx - 1]].st = "erased"
    /\ hist.ev.kind = "none"

\* C11: an insert() of a function of one block and at most two
\* instructions never merges it: the turn is not a merge, and it leaves the
\* module, the counters and Changed as they were.
C11_TinyVeto ==
    [][(/\ hist'.ev.NewF # 0
        /\ Len(mod[hist'.ev.NewF].blocks) = 1
        /\ Len(mod[hist'.ev.NewF].blocks[1].insts) <= 2)
       => /\ hist'.ev.kind # "merge"
          /\ mod' = mod
          /\ stats' = stats
          /\ Changed' = Changed]_vars

\* insert() found an equal incumbent for a tiny newcomer and left it alone.
C11_Witness ==
    /\ hist.ev.kind = "tiny"
    /\ hist.ev.OldF # 0
    /\ mod[hist.ev.NewF].st = "live"
    /\ mod[hist.ev.OldF].st = "live"

\* The loops of an iteration are through: the while test is next.
AtWhileTest == pc = "weak" /\ idx > Len(Worklist)

MergedInIteration ==
    stats.NumFunctionsMerged > hist.iterBase.NumFunctionsMerged

\* A step inside the loops that lengthens the deferral queue merges.
DeferredGrowsInMerge ==
    (pc \in {"strong", "weak"} /\ Len(Deferred') > Len(Deferred))
        => (hist'.ev.kind = "merge")

\* The step from the while test with an empty queue leaves the loop.
EmptyQueueExits == (AtWhileTest /\ Deferred = <<>>) => (pc' = "done")

\* C14: inside the do/while loop the deferral queue grows only in a turn
\* that merges; at the while test a merge happened in the iteration or the
\* queue is empty, and with an empty queue the loop is left.
C14_Progress ==
    /\ [](AtWhileTest => (MergedInIteration \/ Deferred = <<>>))
    /\ [][DeferredGrowsInMerge /\ EmptyQueueExits]_vars

\* An iteration that merged ends with functions queued for the next one.
C14_Witness == AtWhileTest /\ MergedInIteration /\ Deferred # <<>>

\* The step inserts a function that was not inserted before in this
\* iteration, in the loop of its strength, and a strong one only while no
\* overridable one has been inserted in this iteration.
InsertInSchedule ==
    hist'.ev.NewF # 0 =>
        /\ hist'.ev.NewF \notin hist.inserted
        /\ mayBeOverridden(mod[hist'.ev.NewF]) <=> (pc = "weak")
        /\ ~mayBeOverridden(mod[hist'.ev.NewF]) =>
              \A h \in hist.inserted : ~mayBeOverridden(mod[h])

\* C15: in each iteration every insert of a strong worklist function comes
\* before any insert of an overridable one, and no worklist function is
\* inserted twice.
C15_StrongThenWeak == [][InsertInSchedule]_vars

\* An overridable function is inserted after a strong one of the same
\* iteration.
C15_Witness ==
    /\ pc = "weak"
    /\ hist.ev.NewF # 0
    /\ mayBeOverridden(mod[hist.ev.NewF])
    /\ \E h \in hist.inserted : ~mayBeOverridden(mod[h])

MergedInRun == stats.NumFunctionsMerged > hist.base.NumFunctionsMerged

\* C16: when runOnModule returns, Changed is true exactly if the run
\* called mergeTwoFunctions (NumFunctionsMerged was incremented), and
\* FnSet and Deferred are empty.
C16_ChangedIffMerged ==
    pc = "done" =>
        /\ Changed <=> MergedInRun
        /\ FnSet = {}
        /\ Deferred = <<>>

\* A run that merged has returned true.
C16_Witness == pc = "done" /\ Changed /\ MergedInRun

\* Function Q is function P but for its operands: the callee operands
\* that name G in P name F in Q, the other operands are those of P.
CalleesRedirected(P, Q, G, F) ==
    /\ [Q EXCEPT !.blocks = P.blocks] = P
    /\ Len(Q.blocks) = Len(P.blocks)
    /\ \A b \in 1..Len(P.blocks) :
          /\ Len(Q.blocks[b].insts) = Len(P.blocks[b].insts)
          /\ \A n \in 1..Len(P.blocks[b].insts) :
                LET I == P.blocks[b].insts[n]
                    J == Q.blocks[b].insts[n]
                IN  /\ [J EXCEPT !.ops = I.ops] = I
                    /\ Len(J.ops) = Len(I.ops)
                    /\ \A i \in 1..Len(I.ops) :
                          IF I.ops[i] = FnV(G) /\ isCallee(I, i)
                          THEN RefersTo(J.ops[i], F)
                          ELSE J.ops[i] = I.ops[i]

\* The step merges overridable G into overridable F without aliases.
DoubleWeakStep(F, G) ==
    /\ hist'.ev.kind = "merge"
    /\ hist'.ev.OldF = F /\ hist'.ev.NewF = G
    /\ mayBeOverridden(mod[F]) /\ mayBeOverridden(mod[G])
    /\ ~HasGlobalAliases

\* What such a step does: F and G stay, the module changes in the callee
\* operands that named G only, two counters go up by one.
DoubleWeakEffect(F, G) ==
    /\ mod'[F].st = "live" /\ mod'[G].st = "live"
    /\ \A p \in DOMAIN mod :
          IF HasBody(mod[p])
          THEN CalleesRedirected(mod[p], mod'[p], G, F)
          ELSE mod'[p] = mod[p]
    /\ stats' = [stats EXCEPT !.NumDoubleWeak = @ + 1,
                              !.NumFunctionsMerged = @ + 1]

\* C17: a merge of two overridable functions without alias support erases
\* neither and replaces no body; it changes the callee operands that named
\* G to name F and nothing else in the module, and adds one to
\* NumDoubleWeak and to NumFunctionsMerged and nothing to the other two.
C17_DoubleWeakRedirectsOnly ==
    [][\A F, G \in Ids : DoubleWeakStep(F, G) => DoubleWeakEffect(F, G)]_vars

\* Such a merge redirected a call of G while another function holds a use
\* of G that is not a callee operand.
C17_Witness ==
    /\ hist.ev.kind = "merge"
    /\ hist.ev.rewritten # {}
    /\ ~HasGlobalAliases
    /\ mayBeOverridden(mod[hist.ev.OldF])
    /\ mayBeOverridden(mod[hist.ev.NewF])
    /\ stats.NumDoubleWeak > 0
    /\ \E p \in FuncIds :
          /\ HasBody(mod[p])
          /\ \E pos \in OperandPositions(mod[p]) :
                /\ OperandAt(mod[p], pos) = FnV(hist.ev.NewF)
                /\ ~isCallee(mod[p].blocks[pos[1]].insts[pos[2]], pos[3])

\* The step merges overridable G into overridable F with aliases.
DoubleWeakAliasStep(F, G) ==
    /\ hist'.ev.kind = "merge"
    /\ hist'.ev.OldF = F /\ hist'.ev.NewF = G
    /\ mayBeOverridden(mod[F]) /\ mayBeOverridden(mod[G])
    /\ HasGlobalAliases

\* Global a is new in the step and is an alias, named n, of function F.
NewAliasOf(a, n, F) ==
    /\ mod[a].st = "none"
    /\ mod'[a].st = "alias"
    /\ mod'[a].name = n
    /\ mod'[a].aliasee = F

\* What such a step does: aliases with the names of F and G are bound to
\* one private function that holds the instructions of F, aligned to the
\* greater of the two alignments; G is erased; the counters read one
\* merge, two aliases and one double-weak more, and no thunk more.
DoubleWeakAliasEffect(F, G) ==
    /\ \E a, b \in Ids :
          /\ a # b
          /\ NewAliasOf(a, mod[F].name, F)
          /\ NewAliasOf(b, mod[G].name, F)
    /\ mod'[F].st = "live"
    /\ mod'[F].linkage = "private"
    /\ Len(mod'[F].blocks) = Len(mod[F].blocks)
    /\ \A b \in 1..Len(mod[F].blocks) :
          [n \in 1..Len(mod'[F].blocks[b].insts) |->
                mod'[F].blocks[b].insts[n].op]
            = [n \in 1..Len(mod[F].blocks[b].insts) |->
                mod[F].blocks[b].insts[n].op]
    /\ mod'[F].align = IF mod[F].align >= mod[G].align
                       THEN mod[F].align ELSE mod[G].align
    /\ mod'[G].st = "erased"
    /\ stats' = [stats EXCEPT !.NumFunctionsMerged = @ + 1,
                              !.NumAliasesWritten = @ + 2,
                              !.NumDoubleWeak = @ + 1]

CallsTo(m, p, f) ==
    /\ HasBody(m[p])
    /\ \E pos \in OperandPositions(m[p]) :
          /\ RefersTo(OperandAt(m[p], pos), f)
          /\ isCallee(m[p].blocks[pos[1]].insts[pos[2]], pos[3])

\* The step merges G into strong F by writeThunk.
WriteThunkStep(F, G) ==
    /\ hist'.ev.kind = "merge"
    /\ hist'.ev.OldF = F /\ hist'.ev.NewF = G
    /\ ~mayBeOverridden(mod[F])
    /\ ~HasGlobalAliases

\* What the step does to the calls of overridable G: none is redirected,
\* each calls the new function of G's name, and F has no new caller but
\* that function.
CallersKeepSymbol(F, G) ==
    /\ hist'.ev.rewritten = {}
    /\ \E t \in Ids :
          /\ mod[t].st = "none"
          /\ HasBody(mod'[t]) /\ mod'[t].name = mod[G].name
          /\ \A p \in DOMAIN mod \ {G} : HasBody(mod[p]) =>
                \A pos \in OperandPositions(mod[p]) :
                    (/\ OperandAt(mod[p], pos) = FnV(G)
                     /\ isCallee(mod[p].blocks[pos[1]].insts[pos[2]], pos[3]))
                    => OperandAt(mod'[p], pos) = FnV(t)
          /\ \A p \in DOMAIN mod :
                (CallsTo(mod', p, F) /\ ~CallsTo(mod, p, F)) => p = t

\* C26: when writeThunk(F, G) runs with G overridable, no call is
\* redirected from G to F: every former direct call of G calls the thunk
\* of G's name and F has no new caller but the thunk; calls are
\* redirected to F only when G is not overridable.
C26_CallersKeepSymbol ==
    [][\A F, G \in Ids : WriteThunkStep(F, G) =>
          /\ mayBeOverridden(mod[G]) => CallersKeepSymbol(F, G)
          /\ hist'.ev.rewritten # {} => ~mayBeOverridden(mod[G])]_vars

\* An overridable function was merged into a strong one and a third
\* function calls the thunk that took its name.
C26_Witness ==
    /\ hist.ev.kind = "merge"
    /\ mod[hist.ev.NewF].st = "erased"
    /\ mayBeOverridden(mod[hist.ev.NewF])
    /\ ~mayBeOverridden(mod[hist.ev.OldF])
    /\ \E t \in Ids \ FuncIds :
          /\ HasBody(mod[t]) /\ mod[t].name = mod[hist.ev.NewF].name
          /\ \E p \in FuncIds \ {hist.ev.OldF} : p \in DirectCallers(mod, t)
          /\ DirectCallers(mod, hist.ev.OldF) = {t}

\* C27: no live function is in FnSet and in Deferred at once, and Deferred
\* holds no function twice.
C27_SetAndQueueDisjoint ==
    /\ \A i \in 1..Len(Deferred) :
          HasBody(mod[Deferred[i]]) => Deferred[i] \notin SetFuncs(FnSet)
    /\ \A i, j \in 1..Len(Deferred) : Deferred[i] = Deferred[j] => i = j

\* After a merge Deferred holds a live function that FnSet held before,
\* and FnSet holds another.
C27_Witness ==
    /\ hist.ev.kind = "merge"
    /\ \E i \in 1..Len(Deferred) :
          /\ HasBody(mod[Deferred[i]])
          /\ Deferred[i] \in hist.ev.inSetBefore
    /\ FnSet # {}

\* C28: the hash in every entry of FnSet is profileFunction of the
\* entry's function as the module now has it, whatever the pass rewrote
\* since the entry was made, and the lookup of remove() finds the entry.
C28_StoredHashCurrent ==
    \A e \in FnSet : HasBody(mod[e.func]) =>
        /\ e.hash = profileFunction(mod[e.func])
        /\ LookupBucketFor(mod, DL, FnSet,
                           ComparableFunction(mod, e.func), TRUE) = {e}

\* A merge rewrote the body of a function that FnSet held and holds
\* still.
C28_Witness ==
    /\ hist.ev.kind = "merge"
    /\ \E e \in FnSet :
          /\ e.func \in FuncIds \ {hist.ev.OldF}
          /\ HasBody(mod[e.func])
          /\ mod[e.func].blocks # hist.entry[e.func].blocks

\* The step creates no global.
NoNewGlobal == \A i \in Ids : mod[i].st = "none" => mod'[i].st = "none"

\* A merge of G into F without alias support: into overridable F it
\* redirects calls only; into strong F it goes through writeThunk, which
\* erases G and writes a thunk of G's name unless G is local and left
\* without uses.
MergeWithoutAliases(F, G) ==
    IF mayBeOverridden(mod[F])
    THEN /\ mod'[F].st = "live" /\ mod'[G].st = "live"
         /\ NoNewGlobal
         /\ stats'.NumDoubleWeak = stats.NumDoubleWeak + 1
         /\ stats'.NumThunksWritten = stats.NumThunksWritten
    ELSE /\ mod'[G].st = "erased"
         /\ stats'.NumDoubleWeak = stats.NumDoubleWeak
         /\ \/ /\ stats'.NumThunksWritten = stats.NumThunksWritten + 1
               /\ \E t \in Ids :
                     /\ mod[t].st = "none"
                     /\ HasBody(mod'[t]) /\ mod'[t].name = mod[G].name
            \/ /\ hasLocalLinkage(mod[G])
               /\ stats'.NumThunksWritten = stats.NumThunksWritten
               /\ NoNewGlobal

\* C29: HasGlobalAliases is false in every state, so the module never
\* holds an alias and NumAliasesWritten stays 0; a merge into a strong
\* function goes through writeThunk and a merge into an overridable one
\* redirects calls only.
C29_AliasSupportOff ==
    /\ [](/\ HasGlobalAliases = FALSE
          /\ \A i \in Ids : mod[i].st # "alias"
          /\ stats.NumAliasesWritten = 0)
    /\ [][\A F, G \in Ids :
             (/\ hist'.ev.kind = "merge"
              /\ hist'.ev.OldF = F /\ hist'.ev.NewF = G)
             => MergeWithoutAliases(F, G)]_vars

\* An unnamed_addr function of external linkage was merged into a strong
\* function and replaced by a thunk.
C29_Witness ==
    /\ hist.ev.kind = "merge"
    /\ ~mayBeOverridden(mod[hist.ev.OldF])
    /\ mod[hist.ev.NewF].st = "erased"
    /\ mod[hist.ev.NewF].unnamed_addr
    /\ hasExternalLinkage(mod[hist.ev.NewF])
    /\ stats.NumThunksWritten = 1
    /\ stats.NumAliasesWritten = 0

\* The elements a step appended to Deferred.
AppendedToDeferred == SubSeq(Deferred', Len(Deferred) + 1, Len(Deferred'))

\* What the remove() calls of a merge of G do: FnSet loses entries only,
\* each of a function that uses G; Deferred keeps its elements and gains
\* the functions of the lost entries, each once.
RemoveEffect(G) ==
    /\ FnSet' \subseteq FnSet
    /\ SetFuncs(FnSet \ FnSet') \subseteq
          DirectCallers(mod, G) \cup UsersToRemove(mod, G)
    /\ Len(Deferred') >= Len(Deferred)
    /\ SubSeq(Deferred', 1, Len(Deferred)) = Deferred
    /\ {AppendedToDeferred[i] : i \in 1..Len(AppendedToDeferred)}
          = SetFuncs(FnSet \ FnSet')
    /\ Len(AppendedToDeferred) = Cardinality(FnSet \ FnSet')

\* C24: the remove() calls of a merge erase from FnSet only the entries
\* of the functions they are called on, never that of another function
\* that compares equal; a function is appended to Deferred exactly when
\* its entry was erased; the other entries of FnSet and the other
\* elements of Deferred stay as they were.
C24_RemoveByIdentity ==
    [][\A G \in Ids :
         (hist'.ev.kind = "merge" /\ hist'.ev.NewF = G) => RemoveEffect(G)]_vars

\* A merge of G called remove() on two callers of G that compare equal
\* to each other: FnSet held one, which is now in Deferred, and holds an
\* equal function still that does not call G.
C24_Witness ==
    /\ hist.ev.kind = "merge"
    /\ \E p, q \in hist.ev.rewritten :
          /\ p # q
          /\ p \in hist.ev.inSetBefore /\ q \notin hist.ev.inSetBefore
          /\ InDeferred(p) /\ ~InDeferred(q)
          /\ profileFunction(mod[p]) = profileFunction(mod[q])
          /\ hist.entry[p].blocks = hist.entry[q].blocks

FirstOp(F) == F.blocks[1].insts[1].op

\* Every use of function f in module m is the callee of a direct call.
OnlyDirectCalls(m, f) ==
    \A p \in DOMAIN m : HasBody(m[p]) =>
        \A pos \in OperandPositions(m[p]) :
            RefersTo(OperandAt(m[p], pos), f) =>
                /\ OperandAt(m[p], pos) = FnV(f)
                /\ isCallee(m[p].blocks[pos[1]].insts[pos[2]], pos[3])

\* The conversion from type S to type D: the integer/pointer conversions,
\* else a bit-cast.
ConvOp(S, D) ==
    IF S.id = "Integer" /\ D.id = "Pointer" THEN "inttoptr"
    ELSE IF S.id = "Pointer" /\ D.id = "Integer" THEN "ptrtoint"
    ELSE "bitcast"

\* In the block insts, value v is value src of type S as type D: src
\* itself when the types are the same, else the result of an instruction
\* before position c that converts src to D.
ConvertedTo(insts, v, src, S, D, c) ==
    IF S = D THEN v = src
    ELSE /\ v.k = "inst" /\ v.b = 1 /\ v.n < c
         /\ insts[v.n].op = ConvOp(S, D)
         /\ insts[v.n].ty = D
         /\ insts[v.n].ops = <<src>>

\* T is a thunk for Gf to function f (record Ff): Gf's name, linkage,
\* signature and attributes, and one block that converts the arguments,
\* tail-calls f with Ff's calling convention and returns void or the
\* converted result.
ThunkOf(T, f, Ff, Gf) ==
    /\ T.st = "live"
    /\ T.name = Gf.name /\ T.linkage = Gf.linkage
    /\ T.ret = Gf.ret /\ T.params = Gf.params /\ T.vararg = Gf.vararg
    /\ T.attrs = Gf.attrs
    /\ Len(T.blocks) = 1
    /\ LET insts == T.blocks[1].insts
           last == Len(insts)
       IN  \E c \in 1..last :
             /\ \A n \in 1..last : (insts[n].op = "call") <=> (n = c)
             /\ Len(insts[c].ops) = Len(Gf.params) + 1
             /\ insts[c].ops[Len(Gf.params) + 1] = FnV(f)
             /\ insts[c].opt = 1
             /\ insts[c].cc = Ff.cc
             /\ \A i \in 1..Len(Gf.params) :
                   ConvertedTo(insts, insts[c].ops[i], ArgV(i),
                               Gf.params[i], Ff.params[i], c)
             /\ insts[last].op = "ret"
             /\ IF Gf.ret.id = "Void" THEN insts[last].ops = <<>>
                ELSE /\ Len(insts[last].ops) = 1
                     /\ ConvertedTo(insts, insts[last].ops[1], InstV(1, c),
                                    Ff.ret, Gf.ret, last)

\* The step merges G into strong F by writeThunk, and G is not a local
\* function whose uses are all direct calls (which is erased at once).
ThunkStep(F, G) ==
    /\ hist'.ev.kind = "merge"
    /\ hist'.ev.OldF = F /\ hist'.ev.NewF = G
    /\ ~mayBeOverridden(mod[F])
    /\ ~HasGlobalAliases
    /\ ~(hasLocalLinkage(mod[G]) /\ OnlyDirectCalls(mod, G))

\* The operand at pos of function p named G before the step and was not
\* the callee of a call that the step redirected.
FormerUse(p, pos, G) ==
    /\ RefersTo(OperandAt(mod[p], pos), G)
    /\ ~(/\ ~mayBeOverridden(mod[G])
         /\ OperandAt(mod[p], pos) = FnV(G)
         /\ isCallee(mod[p].blocks[pos[1]].insts[pos[2]], pos[3]))

\* What such a step does: a new function is a thunk for G to F, the former
\* uses of G name it, G is erased and one thunk is counted.
ThunkEffect(F, G) ==
    /\ \E t \in Ids :
          /\ mod[t].st = "none"
          /\ ThunkOf(mod'[t], F, mod[F], mod[G])
          /\ \A p \in DOMAIN mod \ {G} : HasBody(mod[p]) =>
                \A pos \in OperandPositions(mod[p]) :
                    FormerUse(p, pos, G) =>
                        RefersTo(OperandAt(mod'[p], pos), t)
    /\ mod'[G].st = "erased"
    /\ stats'.NumThunksWritten = stats.NumThunksWritten + 1

\* C19: when writeThunk(F, G) does not erase G at once, it leaves a new
\* function with G's name, linkage, signature and attributes whose one
\* block converts each argument to F's parameter type, tail-calls F with
\* F's calling convention and returns void or the converted result; the
\* former uses of G name the new function, G is erased and
\* NumThunksWritten is one more.
C19_ThunkShape ==
    [][\A F, G \in Ids : ThunkStep(F, G) => ThunkEffect(F, G)]_vars

\* A merge left a thunk that converts between a pointer and an integer
\* and whose address a third function takes.
C19_Witness ==
    /\ hist.ev.kind = "merge"
    /\ stats.NumThunksWritten = 1
    /\ mod[hist.ev.NewF].st = "erased"
    /\ \E t \in Ids \ FuncIds :
          /\ HasBody(mod[t])
          /\ mod[t].name = mod[hist.ev.NewF].name
          /\ \E n \in 1..Len(mod[t].blocks[1].insts) :
                mod[t].blocks[1].insts[n].op \in {"inttoptr", "ptrtoint"}
          /\ \E p \in FuncIds :
                /\ HasBody(mod[p])
                /\ \E pos \in OperandPositions(mod[p]) :
                      OperandAt(mod[p], pos) = FnV(t)

\* Function p of module m has an operand that is G or a constant
\* expression on G.
UsesFunction(m, p, G) ==
    /\ HasBody(m[p])
    /\ \E pos \in OperandPositions(m[p]) : RefersTo(OperandAt(m[p], pos), G)

\* C25: when a merge of G reaches removeUsers(G), every function with an
\* instruction that uses G, directly or through a constant expression on
\* G, is absent from FnSet afterwards, and is in Deferred if FnSet held
\* it.
C25_UsersInvalidated ==
    [][\A F, G \in Ids : ThunkStep(F, G) =>
          \A p \in DOMAIN mod : UsesFunction(mod, p, G) =>
              /\ p \notin SetFuncs(FnSet')
              /\ p \in SetFuncs(FnSet) =>
                    \E i \in 1..Len(Deferred') : Deferred'[i] = p]_vars

\* In module m, f and g are strong functions of one body, attribute set
\* and calling convention that are used in direct calls only, and no two
\* other functions of m are alike: their first instructions differ from
\* one another and from that of f.
TwoStrongTwins(m, f, g) ==
    /\ f < g
    /\ HasBody(m[f]) /\ HasBody(m[g])
    /\ ~mayBeOverridden(m[f]) /\ ~mayBeOverridden(m[g])
    /\ m[f].attrs = m[g].attrs /\ m[f].cc = m[g].cc
    /\ m[f].blocks = m[g].blocks
    /\ \A pos \in OperandPositions(m[f]) : ~IsConstant(OperandAt(m[f], pos))
    /\ OnlyDirectCalls(m, f) /\ OnlyDirectCalls(m, g)
    /\ \A p, q \in DOMAIN m \ {f, g} :
          (HasBody(m[p]) /\ HasBody(m[q]) /\ p # q) =>
              FirstOp(m[p]) # FirstOp(m[q])
    /\ \A p \in DOMAIN m \ {f, g} :
          HasBody(m[p]) => FirstOp(m[p]) # FirstOp(m[f])

\* Function e is erased without a thunk, every call that named it at the
\* entry of the run names function s, and one merge is counted.
ErasedInto(e, s) ==
    /\ mod[e].st = "erased"
    /\ mod[s].st = "live"
    /\ \A p \in DirectCallers(hist.entry, e) :
          /\ HasBody(mod[p])
          /\ \A pos \in OperandPositions(hist.entry[p]) :
                OperandAt(hist.entry[p], pos) = FnV(e) =>
                    OperandAt(mod[p], pos) = FnV(s)
    /\ stats.NumFunctionsMerged = 1
    /\ stats.NumThunksWritten = 0

HeaderTagsOf(F) == <<F.vararg, F.cc, F.attrs, F.section, F.gc>>

MemOps == {"load", "store", "fence", "cmpxchg", "atomicrmw"}

MemTagsOf(I) ==
    IF I.op \in MemOps THEN <<I.vol, I.ord, I.ord2, I.scope>> ELSE <<>>

\* F with the header fields and the tags of its memory instructions at
\* their defaults, and without its name and linkage.
WithoutTags(F) ==
    [F EXCEPT !.name = 0, !.linkage = "external",
              !.vararg = FALSE, !.cc = 0, !.attrs = 0, !.section = "",
              !.gc = "",
              !.blocks = [b \in 1..Len(F.blocks) |->
                  [insts |-> [n \in 1..Len(F.blocks[b].insts) |->
                      IF F.blocks[b].insts[n].op \in MemOps
                      THEN [F.blocks[b].insts[n] EXCEPT
                               !.vol = FALSE, !.ord = 0, !.ord2 = 0,
                               !.scope = 0]
                      ELSE F.blocks[b].insts[n]]]]]

\* The blocks in which a memory instruction of F and the one of G at the
\* same place differ in a tag.
TagDifferences(F, G) ==
    {b \in 1..Len(F.blocks) :
        \E n \in 1..Len(F.blocks[b].insts) :
            MemTagsOf(F.blocks[b].insts[n]) # MemTagsOf(G.blocks[b].insts[n])}

\* F and G differ, and only in header fields or tags.
DifferOnlyInTags(F, G) ==
    /\ HasBody(F) /\ HasBody(G)
    /\ WithoutTags(F) = WithoutTags(G)
    /\ HeaderTagsOf(F) # HeaderTagsOf(G) \/ TagDifferences(F, G) # {}

\* They differ in a header field, or in a tag of an instruction of a block
\* that the entry block leads to.
DifferInReachableTag(F, G) ==
    \/ HeaderTagsOf(F) # HeaderTagsOf(G)
    \/ TagDifferences(F, G) \cap ReachableFrom(F, {1}) # {}

\* The module at the entry of the run held functions f and g only.
OnlyPair(f, g) ==
    /\ pc # "entry"
    /\ f # g
    /\ \A h \in DOMAIN hist.entry : HasBody(hist.entry[h]) <=> h \in {f, g}

\* C12 as stated: two functions that differ only in a header field or in
\* a tag of a memory instruction do not compare equal, and the pass run on
\* a module of the two leaves all four counters at zero.
C12_TagsKeepApart ==
    \A f, g \in FuncIds :
        (OnlyPair(f, g) /\ DifferOnlyInTags(hist.entry[f], hist.entry[g]))
            => /\ ~compare(hist.entry, DL, f, g)
               /\ stats = ZeroStats

\* C12, amended: the same of two functions that differ in a header field
\* or in a tag of a memory instruction in a block reachable from the entry.
C12_ReachableTagsKeepApart ==
    \A f, g \in FuncIds :
        (/\ OnlyPair(f, g)
         /\ DifferOnlyInTags(hist.entry[f], hist.entry[g])
         /\ DifferInReachableTag(hist.entry[f], hist.entry[g]))
            => /\ ~compare(hist.entry, DL, f, g)
               /\ stats = ZeroStats

\* A run ended on two functions of one hash that differ in a tag of an
\* instruction of the entry block.
C12_Witness ==
    /\ pc = "done"
    /\ OnlyPair(1, 2)
    /\ DifferOnlyInTags(hist.entry[1], hist.entry[2])
    /\ 1 \in TagDifferences(hist.entry[1], hist.entry[2])
    /\ profileFunction(hist.entry[1]) = profileFunction(hist.entry[2])
    /\ stats = ZeroStats

\* P is a pointer type and I an integer type.
PointerAndInteger(P, I) == P.id = "Pointer" /\ I.id = "Integer"

\* What cmpType may return for pointer type P against integer type I:
\* with a DataLayout, 0 for P in address space 0 and I of pointer width
\* and non-zero for P in another address space; without one, non-zero.
PointerIntegerResult(P, I, Res) ==
    /\ (DL.present /\ P.as = 0 /\ I.n = DL.bits) => Res = 0
    /\ (DL.present /\ P.as # 0) => Res # 0
    /\ ~DL.present => Res # 0

\* C20: cmpType returns 0 for an address-space-0 pointer type and the
\* integer type of pointer width exactly when there is a DataLayout;
\* without a DataLayout it returns non-zero for a pointer type and any
\* integer type, and with one it returns non-zero for a pointer type in a
\* non-zero address space and any integer type.
C20_PointerIntegerNeedsLayout ==
    cmpTyRes # <<>> =>
        /\ PointerAndInteger(cmpTyL, cmpTyR) =>
              PointerIntegerResult(cmpTyL, cmpTyR, cmpTyRes[1])
        /\ PointerAndInteger(cmpTyR, cmpTyL) =>
              PointerIntegerResult(cmpTyR, cmpTyL, cmpTyRes[1])

\* cmpType returned 0 for an address-space-0 pointer and the integer of
\* the DataLayout's pointer width.
C20_Witness ==
    /\ cmpTyRes = <<0>>
    /\ DL.present
    /\ cmpTyL.id = "Pointer" /\ cmpTyL.as = 0
    /\ cmpTyR = IntTy(DL.bits)

RECURSIVE ErasePointee(_)

\* Type Ty with the pointee type of every pointer type in it left out.
ErasePointee(Ty) ==
    CASE Ty.id = "Pointer" -> [id |-> "Pointer", as |-> Ty.as]
      [] Ty.id = "Struct" ->
           [Ty EXCEPT !.elems = [i \in DOMAIN Ty.elems |->
                                    ErasePointee(Ty.elems[i])]]
      [] Ty.id = "Array" -> [Ty EXCEPT !.elem = ErasePointee(Ty.elem)]
      [] Ty.id = "Function" ->
           [Ty EXCEPT !.ret = ErasePointee(Ty.ret),
                      !.params = [i \in DOMAIN Ty.params |->
                                     ErasePointee(Ty.params[i])]]
      [] OTHER -> Ty

C22_TotalPreorder ==
    /\ cmpTyRes # <<>> => cmpTyRes[1] \in {-1, 0, 1}
    /\ Len(cmpTyRes) = 2 =>
          /\ cmpTyRes[2].LL = 0
          /\ cmpTyRes[2].RL = -cmpTyRes[1]
          /\ cmpTyRes[2].RC \in {-1, 0, 1}
          /\ cmpTyRes[2].LC \in {-1, 0, 1}
          /\ (cmpTyRes[1] <= 0 /\ cmpTyRes[2].RC <= 0) =>
                cmpTyRes[2].LC <= 0
          /\ (cmpTyRes[1] = 0 /\ cmpTyRes[2].RC = 0) =>
                cmpTyRes[2].LC = 0

\* Three different types, a struct among them, were compared: the first
\* came before the second and the second before the third.
C22_Witness ==
    /\ Len(cmpTyRes) = 2
    /\ cmpTyRes[1] = -1 /\ cmpTyRes[2].RC = -1 /\ cmpTyRes[2].LC = -1
    /\ cmpTyL.id = "Struct" /\ cmpTyR.id = "Struct"
    /\ cmpTyRes[2].third.id = "Struct"

(***************************************************************************)
(* Properties of the comparator and the hash.                              *)
(***************************************************************************)
\* C4: functions that compare() finds equal have equal hashes.
C4_EqualImpliesSameHash ==
    \A k \in DOMAIN cmpRes : cmpRes[k].equal => cmpRes[k].hash1 = cmpRes[k].hash2

\* C5: compare() is transitive: when it accepts (F, G) and (G, H) it
\* accepts (F, H).
C5_Transitive ==
    \A f, g, h \in FuncIds :
        /\ {<<pc, f, g>>, <<pc, g, h>>, <<pc, f, h>>} \subseteq DOMAIN cmpRes
        /\ cmpRes[<<pc, f, g>>].equal
        /\ cmpRes[<<pc, g, h>>].equal
        => cmpRes[<<pc, f, h>>].equal

\* C10: insert() merges two functions exactly when it merges the two
\* functions left when their unreachable blocks are deleted.
C10_UnreachableIrrelevant ==
    \A f, g \in FuncIds :
        <<"compare_stripped", f, g>> \in DOMAIN cmpRes =>
            cmpRes[<<"compare_stripped", f, g>>].merged
                = cmpRes[<<"compare", f, g>>].merged

\* Instructions I1 of function f and I2 of function g are the same but
\* for operands where I1 names f and I2 names g, or I1 names g and I2
\* names f.
SameButRecursionInst(I1, I2, f, g) ==
    /\ [I1 EXCEPT !.ops = <<>>] = [I2 EXCEPT !.ops = <<>>]
    /\ Len(I1.ops) = Len(I2.ops)
    /\ \A i \in 1..Len(I1.ops) :
          \/ I1.ops[i] = I2.ops[i]
          \/ I1.ops[i] = FnV(f) /\ I2.ops[i] = FnV(g)
          \/ I1.ops[i] = FnV(g) /\ I2.ops[i] = FnV(f)

\* Functions f and g of module m are the same but for their names and
\* for such operands.
SameButRecursion(m, f, g) ==
    /\ HasBody(m[f]) /\ HasBody(m[g])
    /\ [m[f] EXCEPT !.name = 0, !.blocks = <<>>]
           = [m[g] EXCEPT !.name = 0, !.blocks = <<>>]
    /\ Len(m[f].blocks) = Len(m[g].blocks)
    /\ \A b \in 1..Len(m[f].blocks) :
          /\ Len(m[f].blocks[b].insts) = Len(m[g].blocks[b].insts)
          /\ \A n \in 1..Len(m[f].blocks[b].insts) :
                SameButRecursionInst(m[f].blocks[b].insts[n],
                                     m[g].blocks[b].insts[n], f, g)

\* C23: compare(F, G) returns true for two functions that are the same
\* but for operands where F names F and G names G, or F names G and G
\* names F; neither function is a key or an image of id_map afterwards.
C23_RecursionRecognised ==
    \A f, g \in FuncIds :
        (<<pc, f, g>> \in DOMAIN cmpRes /\ SameButRecursion(mod, f, g)) =>
            /\ cmpRes[<<pc, f, g>>].equal
            /\ \A V \in DOMAIN cmpRes[<<pc, f, g>>].id_map :
                  /\ V \notin {FnV(f), FnV(g)}
                  /\ cmpRes[<<pc, f, g>>].id_map[V] \notin {FnV(f), FnV(g)}

\* compare() accepted two functions that call each other, and two that
\* call themselves.
C23_Witness ==
    \E f, g, h \in FuncIds :
        /\ f # g /\ f # h
        /\ {<<pc, f, g>>, <<pc, f, h>>} \subseteq DOMAIN cmpRes
        /\ mod[f].blocks = CallBody(g) /\ mod[g].blocks = CallBody(f)
        /\ cmpRes[<<pc, f, g>>].equal
        /\ cmpRes[<<pc, f, g>>].id_map # <<>>
        /\ g = h \/ (mod[h].blocks = CallBody(h) /\ cmpRes[<<pc, f, h>>].equal)

AllReturnedTrue == \A i \in 1..Len(enumLog) : enumLog[i]

\* C6: after enumerate() calls that all returned true, id_map maps no two
\* values of F1 to one value of F2, and its images are exactly seen_values.
C6_Bijection ==
    AllReturnedTrue =>
        /\ \A a, b \in DOMAIN id_map : id_map[a] = id_map[b] => a = b
        /\ {id_map[a] : a \in DOMAIN id_map} = seen_values

\* Calls that all returned true have recorded two pairs of values.
C6_Witness ==
    /\ pc = "enumerate"
    /\ AllReturnedTrue
    /\ Cardinality(DOMAIN id_map) >= 2
    /\ Cardinality(seen_values) >= 2

=============================================================================
